---- MODULE Spec2Model ----
(***************************************************************************)
(* A model of the deployment-assembly pipeline of                          *)
(* packages/graphql-transformer-core/src/util/amplifyUtils.ts:             *)
(*   uploadDeployment / uploadDirectory / uploadFile   (specification Spec)*)
(*   mergeUserConfigWithTransformOutput           (specification SpecMerge)*)
(*   emptyDirectory / writeDeploymentToDisk       (specification SpecWrite)*)
(*   buildProject                                 (specification SpecBuild)*)
(* Names and paths are sequences of one-character strings or of path       *)
(* components, so that splitting, joining and stripping are computed.      *)
(***************************************************************************)
EXTENDS Integers, Sequences, FiniteSets, TLC

(***************************************************************************)
(* Bounds of the model and constants of the program.                       *)
(***************************************************************************)
\* depth of the directory tree handed to uploadDeployment
MaxDepth == 2
\* number of stacks in the user's stacks directory
MaxUserStacks == 2
\* number of calls of mergeUserConfigWithTransformOutput on one transform output
MaxMergeCalls == 2
\* number of calls of writeDeploymentToDisk on one directory
MaxWrites == 2
\* number of calls of deleteSecret and deleteSecrets
MaxSsmCalls == 2
\* number of calls of SSMClientWrapper.getInstance
MaxCallers == 4
\* uploadFile(opts, key, body, backoffMS = 1000, numTries = 5)
DefaultBackoffMS == 1000
DefaultNumTries == 5

\* the names a directory entry of the uploaded tree can have, in the order
\* fs.readdir lists them
ListingOrder == <<"a", "b">>

NoError == [type |-> "none", detail |-> <<>>]
Error(msg) == [type |-> "Error", detail |-> <<msg>>]
\* the error the n-th invocation of the caller's upload function rejects with
UploadError(n) == [type |-> "UploadError", detail |-> <<n>>]

\* the error of a failed file system call on path p
FsError(code, p) == [type |-> code, detail |-> <<p>>]

EmptyMap == [x \in {} |-> x]
Last(s) == s[Len(s)]
Front(s) == SubSeq(s, 1, Len(s) - 1)

(***************************************************************************)
(* The file system under opts.directory: a function from the paths that    *)
(* exist (sequences of entry names below the root) to what is there.       *)
(***************************************************************************)
DirEntry == [kind |-> "dir", content |-> <<>>]
FileEntry(p) == [kind |-> "file", content |-> <<"bytes of">> \o p]

RECURSIVE TreesUnder(_, _)
RECURSIVE EntryChoices(_, _, _)
\* every choice of what the entries names[i..] of directory dir are
EntryChoices(dir, depth, i) ==
    IF i > Len(ListingOrder) THEN {EmptyMap}
    ELSE LET p == Append(dir, ListingOrder[i])
             here == {EmptyMap} \cup {p :> FileEntry(p)}
                     \cup {(p :> DirEntry) @@ t : t \in TreesUnder(p, depth - 1)}
         IN {h @@ r : h \in here, r \in EntryChoices(dir, depth, i + 1)}
TreesUnder(dir, depth) ==
    IF depth = 0 THEN {EmptyMap} ELSE EntryChoices(dir, depth, 1)

Trees == TreesUnder(<<>>, MaxDepth)

VARIABLES
    tree,           \* what exists below opts.directory
    optsDirectory,  \* "missing" | "absent" | "root"
    optsUpload,     \* "missing" | "notfunction" | "function"
    stack,          \* the frames of uploadDirectory and uploadFile, innermost last
    calls,          \* the blobs opts.upload was invoked with, in order
    outcomes,       \* how each settled invocation ended: NoError or its error
    waits,          \* the backoff timers started: [Key, ms], in order
    inFlight,       \* invocations of opts.upload not yet settled
    timerPending,   \* a setTimeout of uploadFile has not fired yet
    reads,          \* the paths readFile was called on, in order
    listings,       \* the directories readDir was called on, in order
    status,         \* of uploadDeployment's promise: idle, running, resolved, rejected
    error,          \* what the promise rejected with
    fsFault         \* the file system call that fails in this run, if one does

uploadVars == <<tree, optsDirectory, optsUpload, stack, calls, outcomes, waits,
                inFlight, timerPending, reads, listings, status, error, fsFault>>

\* readdir, lstat or readFile on a path fails with a code
Fault(op, p, code) == [op |-> op, path |-> p, code |-> code]
NoFault == [op |-> "none", path |-> <<>>, code |-> "none"]
\* (mutant) no file system call fails
FaultyNever(fault, op, p) == FALSE
\* the call op on path p rejects
Faulty(fault, op, p) == fault.op = op /\ fault.path = p

(***************************************************************************)
(* uploadDirectory and uploadFile                                          *)
(***************************************************************************)
\* path.join(key, file) on paths kept as sequences of components
PathJoin(key, file) == Append(key, file)

\* (mutant) the names of dir, last listed first
ReadDirBackwards(t, dir) ==
    LET names == SelectSeq(ListingOrder, LAMBDA n : Append(dir, n) \in DOMAIN t)
    IN [i \in 1..Len(names) |-> names[Len(names) + 1 - i]]
\* fs.readdir(dir): the names that exist in dir, in listing order
ReadDir(t, dir) ==
    SelectSeq(ListingOrder, LAMBDA n : Append(dir, n) \in DOMAIN t)

IsDirectory(t, p) == t[p].kind = "dir"
ReadFile(t, p) == t[p].content

DirFrame(directory, key, files) ==
    [fn |-> "uploadDirectory", directory |-> directory, key |-> key,
     files |-> files, i |-> 1, body |-> <<>>, backoffMS |-> 0, numTries |-> 0,
     pc |-> "loop", e |-> NoError]

FileFrame(key, body, backoffMS, numTries) ==
    [fn |-> "uploadFile", directory |-> <<>>, key |-> key, files |-> <<>>, i |-> 0,
     body |-> body, backoffMS |-> backoffMS, numTries |-> numTries,
     pc |-> "upload", e |-> NoError]

\* (mutant) the recursive call forgets its key argument
ChildKeyForgotten(uploadKey) == <<>>
\* the recursive call of uploadDirectory on a subdirectory: its key argument
ChildKey(uploadKey) == uploadKey
\* (mutant) the retry keeps the backoff it had
NextBackoffSame(backoffMS) == backoffMS
\* backoffMS * 2, numTries - 1 of the retry
NextBackoff(backoffMS) == backoffMS * 2
NextTries(numTries) == numTries - 1
\* (mutant) the error an uploadFile frame caught first is the one thrown on
PropagateCaught(stk, err) ==
    IF \E i \in 1..Len(stk) : stk[i].fn = "uploadFile"
    THEN stk[CHOOSE i \in 1..Len(stk) :
                 /\ stk[i].fn = "uploadFile"
                 /\ \A j \in 1..(i - 1) : stk[j].fn # "uploadFile"].e
    ELSE err
\* (mutant) one attempt too many
MayRetryOnceMore(numTries) == numTries > 0
\* if (numTries > 1): another attempt follows
MayRetry(numTries) == numTries > 1

\* (mutant) uploadDirectory goes on without awaiting uploadFile
AfterUploadFileNotAwaited(w) == w
\* await uploadFile(opts, uploadKey, body): uploadDirectory is suspended
\* until the promise of uploadFile settles
AfterUploadFile(w) == [w EXCEPT !.at = "upload"]

\* uploadDirectory runs from the frames in w.stack until it awaits an
\* invocation of uploadFile ("upload") or the outermost call returns ("done");
\* w.started are the blobs opts.upload is invoked with on the way
RECURSIVE Walk(_, _)
Walk(t, w) ==
    IF w.stack = <<>> THEN [w EXCEPT !.at = "done"]
    ELSE LET f == Last(w.stack)
             below == Front(w.stack)
         IN IF f.i > Len(f.files)
            THEN Walk(t, [w EXCEPT !.stack = below])
            ELSE LET file == f.files[f.i]
                     resourcePath == PathJoin(f.directory, file)
                     uploadKey == PathJoin(f.key, file)
                     next == Append(below, [f EXCEPT !.i = f.i + 1])
                 IN IF Faulty(fsFault, "lstat", resourcePath)
                    THEN [w EXCEPT !.at = "error",
                                   !.err = FsError(fsFault.code, resourcePath)]
                    ELSE IF IsDirectory(t, resourcePath)
                    THEN IF Faulty(fsFault, "readdir", resourcePath)
                         THEN [w EXCEPT !.at = "error",
                                        !.err = FsError(fsFault.code, resourcePath),
                                        !.listings = Append(w.listings, resourcePath)]
                         ELSE Walk(t, [w EXCEPT
                                  !.stack = Append(next, DirFrame(resourcePath,
                                                                  ChildKey(uploadKey),
                                                                  ReadDir(t, resourcePath))),
                                  !.listings = Append(w.listings, resourcePath)])
                    ELSE IF Faulty(fsFault, "readFile", resourcePath)
                    THEN [w EXCEPT !.at = "error",
                                   !.err = FsError(fsFault.code, resourcePath),
                                   !.reads = Append(w.reads, resourcePath)]
                    ELSE LET body == ReadFile(t, resourcePath)
                             called == AfterUploadFile(
                                 [w EXCEPT
                                    !.stack = Append(next, FileFrame(uploadKey, body,
                                                                     DefaultBackoffMS,
                                                                     DefaultNumTries)),
                                    !.reads = Append(w.reads, resourcePath),
                                    !.started = Append(w.started,
                                                       [Key |-> uploadKey, Body |-> body])])
                         IN IF called.at = "upload" THEN called
                            ELSE Walk(t, [called EXCEPT !.stack = next])

\* An exception leaving the innermost frame: no frame below handles it (an
\* uploadFile frame below is inside its catch block, uploadDirectory has no
\* handler), so it reaches uploadDeployment, whose catch throws it again.
RECURSIVE Propagate(_, _)
Propagate(stk, err) ==
    IF stk = <<>> THEN err
    ELSE Propagate(Front(stk), err)

\* (mutant) the upload option is not checked
OptsErrorDirectoryOnly(directory, upload) ==
    IF directory = "missing" THEN Error("You must provide a 'directory'")
    ELSE IF directory = "absent" THEN Error("Invalid 'directory': directory does not exist")
    ELSE NoError
\* the checks of uploadDeployment before uploadDirectory is called
OptsError(directory, upload) ==
    IF directory = "missing" THEN Error("You must provide a 'directory'")
    ELSE IF directory = "absent" THEN Error("Invalid 'directory': directory does not exist")
    ELSE IF upload # "function" THEN Error("You must provide an 'upload' function")
    ELSE NoError

\* uploadDirectory runs on from the frames stk; when it reaches a file,
\* uploadFile invokes opts.upload({Key, Body}); when the outermost call
\* returns, uploadDeployment's promise resolves; when a file system call
\* fails, its error leaves every uploadDirectory frame and uploadDeployment
Resume(stk, lst, settled) ==
    LET w == Walk(tree, [stack |-> stk, reads |-> reads, listings |-> lst,
                         started |-> <<>>, at |-> "walk", err |-> NoError])
    IN /\ stack' = IF w.at = "error" THEN <<>> ELSE w.stack
       /\ reads' = w.reads
       /\ listings' = w.listings
       /\ error' = IF w.at = "error" THEN w.err ELSE error
       /\ calls' = calls \o w.started
       /\ inFlight' = inFlight - settled + Len(w.started)
       /\ status' = IF w.at = "upload" THEN "running"
                    ELSE IF w.at = "error" THEN "rejected" ELSE "resolved"

\* (mutant) uploadDirectory catches the error of uploadFile and goes on
RejectCaughtByDirectory(err, settled) ==
    LET dirs == SelectSeq(stack, LAMBDA f : f.fn = "uploadDirectory")
    IN IF dirs = <<>>
       THEN /\ status' = "rejected" /\ error' = err /\ stack' = <<>>
            /\ inFlight' = inFlight - settled
            /\ UNCHANGED <<calls, reads, listings>>
       ELSE Resume(dirs, listings, settled)
\* an exception err reaches the caller of uploadDeployment, settled
\* invocations of opts.upload having settled in this step
Reject(err, settled) ==
    /\ status' = "rejected"
    /\ error' = err
    /\ stack' = <<>>
    /\ inFlight' = inFlight - settled
    /\ UNCHANGED <<calls, reads, listings>>

\* uploadDeployment(opts) is called
UploadDeployment ==
    /\ status = "idle"
    /\ LET bad == OptsError(optsDirectory, optsUpload)
       IN IF bad # NoError
          THEN Reject(bad, 0)
          ELSE IF Faulty(fsFault, "readdir", <<>>)
          THEN /\ status' = "rejected"
               /\ error' = FsError(fsFault.code, <<>>)
               /\ stack' = <<>>
               /\ listings' = Append(listings, <<>>)
               /\ UNCHANGED <<calls, reads, inFlight>>
          ELSE Resume(<<DirFrame(<<>>, <<>>, ReadDir(tree, <<>>))>>, Append(listings, <<>>), 0)
    /\ UNCHANGED <<tree, optsDirectory, optsUpload, outcomes, waits, timerPending, fsFault>>

\* the promise of the invocation in flight resolves: uploadFile returns; a
\* caller that is itself uploadFile is in its catch block, after the await of
\* line 222, and goes on to `throw e`
UploadResolves ==
    /\ status = "running"
    /\ inFlight > 0
    /\ optsUpload = "function"
    /\ outcomes' = Append(outcomes, NoError)
    /\ LET below == Front(stack)
       IN IF below # <<>> /\ Last(below).fn = "uploadFile"
          THEN Reject(Propagate(Front(below), Last(below).e), 1)
          ELSE Resume(below, listings, 1)
    /\ UNCHANGED <<tree, optsDirectory, optsUpload, waits, timerPending, fsFault>>

\* the promise of the invocation in flight rejects: the catch block of
\* uploadFile starts the backoff timer when numTries > 1, else throws e
UploadRejects ==
    /\ status = "running"
    /\ inFlight > 0
    /\ LET f == Last(stack)
           e == UploadError(Len(outcomes) + 1)
       IN /\ outcomes' = Append(outcomes, e)
          /\ IF MayRetry(f.numTries)
             THEN /\ timerPending' = TRUE
                  /\ waits' = Append(waits, [Key |-> f.key, ms |-> f.backoffMS])
                  /\ stack' = Append(Front(stack), [f EXCEPT !.pc = "backoff", !.e = e])
                  /\ inFlight' = inFlight - 1
                  /\ UNCHANGED <<calls, reads, listings, status, error>>
             ELSE /\ Reject(Propagate(Front(stack), e), 1)
                  /\ UNCHANGED <<waits, timerPending>>
    /\ UNCHANGED <<tree, optsDirectory, optsUpload, fsFault>>

\* the backoff timer fires: uploadFile calls itself with the doubled backoff
\* and one try less, and that call invokes opts.upload
TimerFires ==
    /\ status = "running"
    /\ timerPending
    /\ LET f == Last(stack)
           retry == FileFrame(f.key, f.body, NextBackoff(f.backoffMS), NextTries(f.numTries))
       IN /\ stack' = Append(Append(Front(stack), [f EXCEPT !.pc = "retry"]), retry)
          /\ calls' = Append(calls, [Key |-> retry.key, Body |-> retry.body])
    /\ inFlight' = inFlight + 1
    /\ timerPending' = FALSE
    /\ UNCHANGED <<tree, optsDirectory, optsUpload, outcomes, waits, reads, listings,
                   status, error, fsFault>>

(***************************************************************************)
(* mergeUserConfigWithTransformOutput                                      *)
(*                                                                         *)
(* A JavaScript object is an ordered map: a sequence of [k, v] entries     *)
(* with distinct keys, in insertion order (the order of Object.keys).      *)
(* File and stack names and resource ids are sequences of characters.      *)
(***************************************************************************)
Keys(m) == [i \in 1..Len(m) |-> m[i].k]
KeySet(m) == {m[i].k : i \in 1..Len(m)}
Has(m, key) == key \in KeySet(m)
Get(m, key) == m[CHOOSE i \in 1..Len(m) : m[i].k = key].v
\* m[key] = v: an existing key keeps its place, a new one goes last
Put(m, key, v) ==
    IF Has(m, key)
    THEN [i \in 1..Len(m) |-> IF m[i].k = key THEN [k |-> key, v |-> v] ELSE m[i]]
    ELSE Append(m, [k |-> key, v |-> v])

AsciiLetters ==
    {"a", "b", "c", "d", "e", "f", "g", "h", "i", "j", "k", "l", "m", "n", "o", "p",
     "q", "r", "s", "t", "u", "v", "w", "x", "y", "z", "A", "B", "C", "D", "E", "F",
     "G", "H", "I", "J", "K", "L", "M", "N", "O", "P", "Q", "R", "S", "T", "U", "V",
     "W", "X", "Y", "Z"}

\* Fn.Ref(k), Fn.GetAtt(id, attribute), and the value of a missing property
Ref(name) == [fn |-> "Ref", args |-> <<name>>]
GetAtt(id, attr) == [fn |-> "Fn::GetAtt", args |-> <<id, attr>>]
Undefined == [fn |-> "undefined", args |-> <<>>]

\* ResourceConstants.PARAMETERS.AppSyncApiId, .RESOURCES.GraphQLAPILogicalID
AppSyncApiId == "AppSyncApiId"
GraphQLAPILogicalID == <<"G", "r", "a", "p", "h", "Q", "L", "A", "P", "I">>

\* resourceTypesToDependOn
ResourceTypesToDependOn ==
    {"AWS::CloudFormation::Stack", "AWS::AppSync::GraphQLApi",
     "AWS::AppSync::GraphQLSchema"}

\* (mutant) the custom stacks wait for the API whether the root stack has it or not
AllResourceIdsWithApi(rootStack) ==
    LET anchors == SelectSeq(rootStack.Resources,
                             LAMBDA r : r.v.Type \in ResourceTypesToDependOn)
    IN IF Has(anchors, GraphQLAPILogicalID) THEN Keys(anchors)
       ELSE Append(Keys(anchors), GraphQLAPILogicalID)
\* Object.keys(rootStack.Resources).filter(k => resourceTypesToDependOn[Type])
AllResourceIds(rootStack) ==
    LET anchors == SelectSeq(rootStack.Resources,
                             LAMBDA r : r.v.Type \in ResourceTypesToDependOn)
    IN Keys(anchors)

\* customStackParams: a Ref for every parameter of the root stack, and the
\* ApiId attribute of the API under AppSyncApiId
CustomStackParams(rootStack) ==
    [name \in rootStack.Parameters \cup {AppSyncApiId} |->
        IF name = AppSyncApiId THEN GetAtt(GraphQLAPILogicalID, "ApiId") ELSE Ref(name)]

\* (mutant) every parameter of customStackParams is handed to the stack
ParametersForStackAll(userDefinedStack, customStackParams) == customStackParams
\* parametersForStack: for every parameter the user stack declares,
\* customStackParams[k] (undefined when customStackParams has no such key)
ParametersForStack(userDefinedStack, customStackParams) ==
    [name \in userDefinedStack.Parameters |->
        IF name \in DOMAIN customStackParams THEN customStackParams[name] ELSE Undefined]

\* userStack.split(/[^A-Za-z]/).join('')
StackResourceId(userStack) == SelectSeq(userStack, LAMBDA c : c \in AsciiLetters)

\* new CloudFormation.Stack({Parameters, TemplateURL}).dependsOn(allResourceIds)
CustomNestedStack(userStack, parametersForStack, dependsOn) ==
    [Type |-> "AWS::CloudFormation::Stack",
     Properties |-> [Parameters |-> parametersForStack,
                     TemplateURL |-> <<"https://s3.amazonaws.com", Ref("S3DeploymentBucket"),
                                       Ref("S3DeploymentRootKey"), "stacks", userStack>>],
     DependsOn |-> dependsOn]

DuplicateStackError(userStack) ==
    [type |-> "Error", detail |-> <<"You cannot provide a stack named", userStack>>]
TypeError(what) == [type |-> "TypeError", detail |-> <<what>>]

\* if (transformOutput.stacks[userStack])
StackNameTaken(stacks, userStack) == Has(stacks, userStack)

\* (mutant) the generated resolver is kept where both define one
OverrideKeepingGenerated(transformResolvers, userResolvers) ==
    transformResolvers \o SelectSeq(userResolvers, LAMBDA r : ~Has(transformResolvers, r.k))
\* for (const userResolver of Object.keys(userResolvers))
\*     transformResolvers[userResolver] = userConfig.resolvers[userResolver]
RECURSIVE OverrideResolvers(_, _)
OverrideResolvers(transformResolvers, userResolvers) ==
    IF userResolvers = <<>> THEN transformResolvers
    ELSE OverrideResolvers(Put(transformResolvers, Head(userResolvers).k, Head(userResolvers).v),
                           Tail(userResolvers))

\* the loop over Object.keys(userStacks), from its i-th key on; t is the
\* transform output, which the loop changes in place
RECURSIVE MergeStacks(_, _, _, _, _)
MergeStacks(userStacks, i, t, allResourceIds, customStackParams) ==
    IF i > Len(userStacks) THEN [status |-> "returned", error |-> NoError, transform |-> t]
    ELSE LET userStack == userStacks[i].k
             userDefinedStack == userStacks[i].v
         IN IF StackNameTaken(t.stacks, userStack)
            THEN [status |-> "thrown", error |-> DuplicateStackError(userStack), transform |-> t]
            ELSE IF ~userDefinedStack.hasParameters
            THEN [status |-> "thrown",
                  error |-> TypeError("Cannot convert undefined or null to object"),
                  transform |-> t]
            ELSE LET parametersForStack == ParametersForStack(userDefinedStack, customStackParams)
                     stackResourceId == StackResourceId(userStack)
                     customNestedStack ==
                         CustomNestedStack(userStack, parametersForStack, allResourceIds)
                     resources == Put(t.rootStack.Resources, stackResourceId, customNestedStack)
                 IN MergeStacks(userStacks, i + 1,
                                [t EXCEPT !.stacks = Put(t.stacks, userStack, userDefinedStack),
                                          !.rootStack.Resources = resources],
                                allResourceIds, customStackParams)

\* mergeUserConfigWithTransformOutput(userConfig, transformOutput): how it
\* ends, what it returns, and the transform output as the call leaves it
MergeUserConfigWithTransformOutput(userConfig, transformOutput) ==
    LET transformResolvers == OverrideResolvers(transformOutput.resolvers, userConfig.resolvers)
        t == [transformOutput EXCEPT !.resolvers = transformResolvers]
        r == MergeStacks(userConfig.stacks, 1, t, AllResourceIds(transformOutput.rootStack),
                         CustomStackParams(transformOutput.rootStack))
    IN [status |-> r.status, error |-> r.error, transform |-> r.transform,
        value |-> r.transform]

(***************************************************************************)
(* The bundles the merge is applied to                                     *)
(***************************************************************************)
DotJson(base) == base \o <<".", "j", "s", "o", "n">>
YmlName == <<"q", ".", "y", "m", "l">>
\* stack files of the project: a.json and a1.json have the same letters
UserStackNames == {DotJson(<<"a">>), DotJson(<<"b">>), DotJson(<<"a", "1">>)}

\* a parsed template: whether it has a Parameters section, and the names in it
Template(hasParameters, parameters, tag) ==
    [kind |-> "object", hasParameters |-> hasParameters, Parameters |-> parameters,
     text |-> tag]
\* a stack kept as raw JSON text
RawText(text) == [kind |-> "string", hasParameters |-> FALSE, Parameters |-> {}, text |-> text]

UserTemplates ==
    {Template(TRUE, {}, "user"), Template(TRUE, {"env", AppSyncApiId}, "user"),
     Template(TRUE, {"own"}, "user"), Template(FALSE, {}, "user")}

\* the ordered maps with at most n entries, keys from ks, values from vs
OrderedMaps(ks, vs, n) ==
    {m \in UNION {[1..len -> [k : ks, v : vs]] : len \in 0..n} :
        \A i \in 1..Len(m) : \A j \in 1..Len(m) : m[i].k = m[j].k => i = j}

Entry(key, v) == [k |-> key, v |-> v]
UserResolverChoices ==
    {<<>>, <<Entry(<<"Query.a.req.vtl">>, "user a")>>,
     <<Entry(<<"Query.b.req.vtl">>, "user b"), Entry(<<"Query.a.req.vtl">>, "user a")>>}
TransformResolverChoices ==
    {<<Entry(<<"Query.a.req.vtl">>, "generated a")>>,
     <<Entry(<<"Query.a.req.vtl">>, "generated a"), Entry(<<"Query.c.req.vtl">>, "generated c")>>}

UserConfigs ==
    [schema : {<<"type A">>}, resolvers : UserResolverChoices,
     stacks : OrderedMaps(UserStackNames, UserTemplates, MaxUserStacks)]

Resource(type, dependsOn) == [Type |-> type, Properties |-> EmptyMap, DependsOn |-> dependsOn]
GraphQLSchemaLogicalID == <<"G", "r", "a", "p", "h", "Q", "L", "S", "c", "h", "e", "m", "a">>
ApiResource == Entry(GraphQLAPILogicalID, Resource("AWS::AppSync::GraphQLApi", <<>>))
SchemaResource ==
    Entry(GraphQLSchemaLogicalID, Resource("AWS::AppSync::GraphQLSchema", <<GraphQLAPILogicalID>>))
TableResource == Entry(<<"T">>, Resource("AWS::DynamoDB::Table", <<>>))
\* a generated nested stack whose id is the letters of the user stack a.json
NestedStackResource ==
    Entry(<<"a", "j", "s", "o", "n">>, Resource("AWS::CloudFormation::Stack", <<GraphQLSchemaLogicalID>>))
\* a generated table whose id is the letters of the user stack b.json
OtherTableResource == Entry(<<"b", "j", "s", "o", "n">>, Resource("AWS::DynamoDB::Table", <<>>))

RootStacks ==
    {[Resources |-> <<>>, Parameters |-> {"env"}],
     [Resources |-> <<ApiResource, SchemaResource>>, Parameters |-> {"env"}],
     [Resources |-> <<ApiResource, TableResource, SchemaResource, NestedStackResource>>,
      Parameters |-> {"env", AppSyncApiId}],
     [Resources |-> <<OtherTableResource, ApiResource, SchemaResource>>,
      Parameters |-> {"env", "S3DeploymentBucket"}]}

TransformStackChoices ==
    {<<>>, <<Entry(<<"p">>, Template(TRUE, {}, "generated"))>>,
     <<Entry(<<"p">>, RawText("{ }")), Entry(DotJson(<<"a">>), Template(TRUE, {}, "generated"))>>,
     <<Entry(YmlName, Template(TRUE, {}, "generated"))>>}

TransformOutputs ==
    [schema : {<<"type A">>}, resolvers : TransformResolverChoices,
     stacks : TransformStackChoices, rootStack : RootStacks,
     functions : {<<>>}]

NoBundle == [schema |-> <<>>, resolvers |-> <<>>, stacks |-> <<>>,
             rootStack |-> [Resources |-> <<>>, Parameters |-> {}], functions |-> <<>>]

VARIABLES
    userConfig,       \* the first argument of the merge
    transformOutput,  \* the second argument, an object the merge changes in place
    transformInput,   \* the transform output as the transform engine made it
    mergeStatus,      \* how the last call ended: idle, returned, thrown
    mergeError,       \* what it threw
    merged,           \* what it returned
    mergeCalls        \* calls made so far

mergeVars == <<userConfig, transformOutput, transformInput, mergeStatus, mergeError,
               merged, mergeCalls>>

\* mergeUserConfigWithTransformOutput(userConfig, transformOutput) is called
Merge ==
    /\ mergeCalls < MaxMergeCalls
    /\ LET r == MergeUserConfigWithTransformOutput(userConfig, transformOutput)
       IN /\ mergeStatus' = r.status
          /\ mergeError' = r.error
          /\ transformOutput' = r.transform
          /\ merged' = IF r.status = "returned" THEN r.value ELSE NoBundle
    /\ mergeCalls' = mergeCalls + 1
    /\ UNCHANGED <<userConfig, transformInput>>

MergeInit ==
    /\ userConfig \in UserConfigs
    /\ transformOutput \in TransformOutputs
    /\ transformInput = transformOutput
    /\ mergeStatus = "idle"
    /\ mergeError = NoError
    /\ merged = NoBundle
    /\ mergeCalls = 0

MergeIdle ==
    /\ userConfig = [schema |-> <<>>, resolvers |-> <<>>, stacks |-> <<>>]
    /\ transformOutput = NoBundle
    /\ transformInput = NoBundle
    /\ mergeStatus = "idle"
    /\ mergeError = NoError
    /\ merged = NoBundle
    /\ mergeCalls = 0

UploadIdle ==
    /\ tree = EmptyMap
    /\ optsDirectory = "missing"
    /\ optsUpload = "missing"
    /\ stack = <<>>
    /\ calls = <<>>
    /\ outcomes = <<>>
    /\ waits = <<>>
    /\ inFlight = 0
    /\ timerPending = FALSE
    /\ reads = <<>>
    /\ listings = <<>>
    /\ status = "idle"
    /\ error = NoError
    /\ fsFault = NoFault

(***************************************************************************)
(* throwIfNotJSON, emptyDirectory, writeDeploymentToDisk                   *)
(*                                                                         *)
(* The target directory is a function from the paths that exist below it   *)
(* (<<>> is the directory itself) to what is there; a path is a sequence   *)
(* of names and a name a sequence of characters.                           *)
(***************************************************************************)
\* name.split('.')
RECURSIVE SplitDot(_)
SplitDot(name) ==
    IF \A i \in 1..Len(name) : name[i] # "."
    THEN <<name>>
    ELSE LET dot == CHOOSE i \in 1..Len(name) :
                        name[i] = "." /\ \A j \in 1..(i - 1) : name[j] # "."
         IN <<SubSeq(name, 1, dot - 1)>> \o SplitDot(SubSeq(name, dot + 1, Len(name)))
\* parts.join('.')
RECURSIVE JoinDot(_)
JoinDot(parts) ==
    IF Len(parts) = 1 THEN parts[1]
    ELSE parts[1] \o <<".">> \o JoinDot(Tail(parts))

YamlError(stackFile) == [type |-> "Error", detail |-> <<"Yaml is not yet supported", stackFile>>]
ExtensionError(extension, stackFile) ==
    [type |-> "Error", detail |-> <<"Invalid extension", extension, stackFile>>]

\* throwIfNotJSON(stackFile): the error it throws, NoError when it returns
ThrowIfNotJSON(stackFile) ==
    LET nameParts == SplitDot(stackFile)
        extension == nameParts[Len(nameParts)]
    IN IF extension = <<"y", "a", "m", "l">> \/ extension = <<"y", "m", "l">>
       THEN YamlError(stackFile)
       ELSE IF extension # <<"j", "s", "o", "n">>
       THEN ExtensionError(extension, stackFile)
       ELSE NoError

\* (mutant) json is appended to every name
FullFileNameAlwaysJson(stackFileName) == stackFileName \o <<".", "j", "s", "o", "n">>
\* the file name a stack is written under: json is appended to a name
\* without a dot
FullFileName(stackFileName) ==
    LET fileNameParts == SplitDot(stackFileName)
    IN JoinDot(IF Len(fileNameParts) = 1 THEN Append(fileNameParts, <<"j", "s", "o", "n">>)
               ELSE fileNameParts)

\* what a file holds: text written as it is, JSON.stringify(value, null, 4),
\* or bytes copied from a packaged function
Text(t) == [text |-> t]
JsonStringify(value, indent) == [json |-> value, indent |-> indent]
File(content) == [kind |-> "file", content |-> content]
Directory == [kind |-> "dir"]

Children(disk, dir) ==
    {p \in DOMAIN disk : Len(p) = Len(dir) + 1 /\ SubSeq(p, 1, Len(dir)) = dir}
Remove(disk, p) == [q \in DOMAIN disk \ {p} |-> disk[q]]

\* a run of the writer: the disk, the file system calls made, the error thrown
Did(ws, op, p) == [ws EXCEPT !.log = Append(ws.log, [op |-> op, path |-> p])]
Throw(ws, err) == [ws EXCEPT !.error = err]
\* the next statement runs only if nothing was thrown before it
Then(ws, Statement(_)) == IF ws.error = NoError THEN Statement(ws) ELSE ws

\* (mutant) everything below the directory is removed, directories too
EmptyDirectoryRemovingAll(ws, directory) ==
    IF directory \notin DOMAIN ws.disk THEN Throw(ws, FsError("ENOENT", directory))
    ELSE [ws EXCEPT !.disk =
             [q \in {p \in DOMAIN ws.disk :
                        ~(Len(p) > Len(directory) /\ SubSeq(p, 1, Len(directory)) = directory)}
                 |-> ws.disk[q]]]
\* (mutant) only the files directly in the directory are unlinked
EmptyDirectoryNotRecursive(ws, directory) ==
    LET files == {p \in Children(ws.disk, directory) : ws.disk[p].kind = "file"}
    IN [ws EXCEPT !.disk = [q \in DOMAIN ws.disk \ files |-> ws.disk[q]]]
\* emptyDirectory(directory); entries are the entries of the listing not
\* yet visited
RECURSIVE EmptyDirectory(_, _)
RECURSIVE EmptyEntries(_, _)
EmptyEntries(ws, entries) ==
    IF entries = {} THEN ws
    ELSE LET resourcePath == CHOOSE p \in entries : TRUE
             after == IF ws.disk[resourcePath].kind = "dir"
                      THEN EmptyDirectory(ws, resourcePath)
                      ELSE Did([ws EXCEPT !.disk = Remove(ws.disk, resourcePath)],
                               "unlink", resourcePath)
         IN EmptyEntries(after, entries \ {resourcePath})
EmptyDirectory(ws, directory) ==
    IF directory \notin DOMAIN ws.disk
    THEN Throw(ws, FsError("ENOENT", directory))
    ELSE IF ws.disk[directory].kind # "dir"
    THEN Throw(ws, FsError("ENOTDIR", directory))
    ELSE EmptyEntries(Did(ws, "readdir", directory), Children(ws.disk, directory))

\* fs.writeFileSync(p, content)
WriteFileSync(ws, p, content) ==
    IF Front(p) \notin DOMAIN ws.disk THEN Throw(ws, FsError("ENOENT", p))
    ELSE IF p \in DOMAIN ws.disk /\ ws.disk[p].kind = "dir" THEN Throw(ws, FsError("EISDIR", p))
    ELSE Did([ws EXCEPT !.disk = (p :> File(content)) @@ ws.disk], "write", p)

\* if (!fs.existsSync(p)) fs.mkdirSync(p)
EnsureDirectory(ws, p) ==
    IF p \in DOMAIN ws.disk THEN ws
    ELSE Did([ws EXCEPT !.disk = (p :> Directory) @@ ws.disk], "mkdir", p)

ResolversDir == <<<<"resolvers">>>>
StacksDir == <<<<"stacks">>>>
FunctionsDir == <<<<"functions">>>>
SchemaPath == <<<<"schema.graphql">>>>
DefaultRootStackFileName == <<"rootStack.json">>

RECURSIVE WriteResolvers(_, _)
WriteResolvers(ws, resolvers) ==
    IF resolvers = <<>> \/ ws.error # NoError THEN ws
    ELSE WriteResolvers(WriteFileSync(ws, Append(ResolversDir, Head(resolvers).k),
                                      Text(Head(resolvers).v)),
                        Tail(resolvers))

\* typeof stackString === 'string' ? it : JSON.stringify(it, null, 4)
StackString(stackValue) ==
    IF stackValue.kind = "string" THEN Text(stackValue.text) ELSE JsonStringify(stackValue, 4)

\* (mutant) a stack whose name is refused is left out and the loop goes on
RECURSIVE WriteStacksSkippingRefused(_, _)
WriteStacksSkippingRefused(ws, stacks) ==
    IF stacks = <<>> \/ ws.error # NoError THEN ws
    ELSE LET fullFileName == FullFileName(Head(stacks).k)
         IN IF ThrowIfNotJSON(fullFileName) # NoError
            THEN WriteStacksSkippingRefused(ws, Tail(stacks))
            ELSE WriteStacksSkippingRefused(
                     WriteFileSync(ws, Append(StacksDir, fullFileName),
                                   StackString(Head(stacks).v)),
                     Tail(stacks))
RECURSIVE WriteStacks(_, _)
WriteStacks(ws, stacks) ==
    IF stacks = <<>> \/ ws.error # NoError THEN ws
    ELSE LET fullFileName == FullFileName(Head(stacks).k)
             bad == ThrowIfNotJSON(fullFileName)
         IN IF bad # NoError THEN Throw(ws, bad)
            ELSE WriteStacks(WriteFileSync(ws, Append(StacksDir, fullFileName),
                                           StackString(Head(stacks).v)),
                             Tail(stacks))

\* a packaged function: the path of its artifact, which may not exist
RECURSIVE WriteFunctions(_, _)
WriteFunctions(ws, functions) ==
    IF functions = <<>> \/ ws.error # NoError THEN ws
    ELSE LET artifact == Head(functions).v
         IN IF ~artifact.exists THEN Throw(ws, FsError("ENOENT", <<artifact.path>>))
            ELSE WriteFunctions(WriteFileSync(ws, Append(FunctionsDir, Head(functions).k),
                                              [bytes |-> artifact.path]),
                                Tail(functions))

\* writeDeploymentToDisk(deployment, directory, rootStackFileName) on the
\* directory whose content is disk: the disk it leaves, the calls it made
\* and the error it threw
WriteDeploymentToDisk(disk, deployment, rootStackFileName) ==
    LET start == [disk |-> disk, log |-> <<>>, error |-> NoError]
        s0 == EmptyDirectory(start, <<>>)
        s1 == Then(s0, LAMBDA ws : WriteFileSync(ws, SchemaPath, Text(deployment.schema)))
        s2 == Then(s1, LAMBDA ws : WriteResolvers(EnsureDirectory(ws, ResolversDir),
                                                  deployment.resolvers))
        s3 == Then(s2, LAMBDA ws : WriteStacks(EnsureDirectory(ws, StacksDir), deployment.stacks))
        s4 == Then(s3, LAMBDA ws : WriteFunctions(EnsureDirectory(ws, FunctionsDir),
                                                  deployment.functions))
    IN Then(s4, LAMBDA ws : WriteFileSync(ws, <<rootStackFileName>>,
                                          JsonStringify(deployment.rootStack, 4)))

(***************************************************************************)
(* Calls of writeDeploymentToDisk on one directory                         *)
(***************************************************************************)
Artifact(path, exists) == [path |-> path, exists |-> exists]

WriteStackChoices ==
    {<<>>,
     <<Entry(<<"p">>, Template(TRUE, {}, "generated"))>>,
     <<Entry(<<"p">>, RawText("{ }")), Entry(DotJson(<<"a">>), Template(TRUE, {"env"}, "user"))>>,
     <<Entry(DotJson(<<"b">>), Template(TRUE, {}, "user")), Entry(YmlName, Template(TRUE, {}, "generated")),
       Entry(DotJson(<<"a">>), Template(TRUE, {}, "user"))>>}
WriteFunctionChoices ==
    {<<>>, <<Entry(<<"f.zip">>, Artifact("/tmp/f.zip", TRUE))>>,
     <<Entry(<<"g.zip">>, Artifact("/tmp/g.zip", FALSE))>>}

\* the deployments written: one schema comes with resolvers and the API in
\* its root stack, the other with neither
Deployments ==
    {[schema |-> <<"type A">>, resolvers |-> <<>>, stacks |-> st,
      rootStack |-> [Resources |-> <<>>, Parameters |-> {"env"}], functions |-> fn] :
        st \in WriteStackChoices, fn \in WriteFunctionChoices}
    \cup
    {[schema |-> <<"type B">>,
      resolvers |-> <<Entry(<<"Query.a.req.vtl">>, "generated a"),
                      Entry(<<"Query.c.req.vtl">>, "generated c")>>,
      stacks |-> st,
      rootStack |-> [Resources |-> <<ApiResource, SchemaResource>>, Parameters |-> {"env"}],
      functions |-> fn] :
        st \in WriteStackChoices, fn \in WriteFunctionChoices}

\* the rootStackFileName argument: left out, or a name
RootStackFileNameArgs ==
    {[given |-> FALSE, name |-> <<>>], [given |-> TRUE, name |-> <<"cloudformation.json">>]}
\* rootStackFileName: string = 'rootStack.json'
RootStackFileName(arg) == IF arg.given THEN arg.name ELSE DefaultRootStackFileName

\* the target directory before the first call: missing, empty, or holding
\* files and directories of an earlier build
Stale(name) == File(Text(name))
TargetDirectories ==
    {EmptyMap,
     <<>> :> Directory,
     (<<>> :> Directory) @@ (<<<<"old.txt">>>> :> Stale("old"))
        @@ (ResolversDir :> Directory) @@ (Append(ResolversDir, <<"Old.req.vtl">>) :> Stale("old"))
        @@ (<<<<"deep">>>> :> Directory) @@ (<<<<"deep">>, <<"er">>>> :> Directory)
        @@ (<<<<"deep">>, <<"er">>, <<"old.txt">>>> :> Stale("old"))}

NoWrite == [called |-> FALSE, deployment |-> NoBundle, rootStackFileName |-> <<>>,
            log |-> <<>>, error |-> NoError, before |-> EmptyMap]

VARIABLES
    disk,        \* the target directory
    lastWrite,   \* the last call of writeDeploymentToDisk: arguments, calls made, error
    prevWrite,   \* the call before it
    writeCalls   \* calls made so far

writeVars == <<disk, lastWrite, prevWrite, writeCalls>>

\* the state after writeDeploymentToDisk(deployment, directory, arg) has run
Written(deployment, arg) ==
    LET ws == WriteDeploymentToDisk(disk, deployment, RootStackFileName(arg))
    IN /\ disk' = ws.disk
       /\ lastWrite' = [called |-> TRUE, deployment |-> deployment,
                        rootStackFileName |-> RootStackFileName(arg),
                        log |-> ws.log, error |-> ws.error, before |-> disk]
       /\ prevWrite' = [lastWrite EXCEPT !.before = EmptyMap]
       /\ writeCalls' = writeCalls + 1

\* writeDeploymentToDisk is called on the directory
Write ==
    /\ writeCalls < MaxWrites
    /\ \E deployment \in Deployments, arg \in RootStackFileNameArgs : Written(deployment, arg)

WriteInit ==
    /\ disk \in TargetDirectories
    /\ lastWrite = NoWrite
    /\ prevWrite = NoWrite
    /\ writeCalls = 0

WriteIdle ==
    /\ disk = EmptyMap
    /\ lastWrite = NoWrite
    /\ prevWrite = NoWrite
    /\ writeCalls = 0

(***************************************************************************)
(* readSchema, readProjectConfiguration, buildProject                      *)
(*                                                                         *)
(* A project directory: schema.graphql, the schema directory (a listing of *)
(* documents and subdirectories), the resolvers directory and the stacks   *)
(* directory (listings of file names with their contents).                 *)
(***************************************************************************)
SyntaxError == [type |-> "SyntaxError", detail |-> <<"Unexpected token">>]
\* JSON.parse on the texts the stack files of the model hold; a text that
\* is not among JsonTexts is no JSON
JsonTexts ==
    {"{ }", "{\"Resources\":{}}", "{\"Parameters\":{}}", "{ \"Parameters\": {} }",
     "{\"Parameters\":{\"env\":{},\"AppSyncApiId\":{}}}", "{\"Parameters\":{\"own\":{}}}"}
JsonParse(text) ==
    CASE text = "{ }" -> Template(FALSE, {}, "user")
      [] text = "{\"Resources\":{}}" -> Template(FALSE, {}, "user")
      [] text = "{\"Parameters\":{}}" -> Template(TRUE, {}, "user")
      [] text = "{ \"Parameters\": {} }" -> Template(TRUE, {}, "user")
      [] text = "{\"Parameters\":{\"env\":{},\"AppSyncApiId\":{}}}" ->
             Template(TRUE, {"env", AppSyncApiId}, "user")
      [] text = "{\"Parameters\":{\"own\":{}}}" -> Template(TRUE, {"own"}, "user")

\* JSON.parse(stackBuffer.toString()) on what a file holds: whether it
\* returns, and what
IsJson(content) ==
    IF "text" \in DOMAIN content THEN content.text \in JsonTexts ELSE "json" \in DOMAIN content
ParseFile(content) ==
    IF "text" \in DOMAIN content THEN JsonParse(content.text) ELSE content.json

\* (mutant) the documents of a subdirectory come after those of the directory
RECURSIVE ReadSchemaDocumentsFilesFirst(_, _)
ReadSchemaDocumentsFilesFirst(schemaDirectoryPath, files) ==
    LET here == SelectSeq(files, LAMBDA f : f.kind = "file")
        dirs == SelectSeq(files, LAMBDA f : f.kind = "dir")
    IN [i \in 1..Len(here) |-> [path |-> Append(schemaDirectoryPath, here[i].name),
                                content |-> here[i].content]]
       \o (IF dirs = <<>> THEN <<>>
           ELSE ReadSchemaDocumentsFilesFirst(Append(schemaDirectoryPath, dirs[1].name),
                                              dirs[1].entries)
                \o ReadSchemaDocumentsFilesFirst(schemaDirectoryPath, Tail(dirs)))
\* readSchemaDocuments(schemaDirectoryPath): the documents read under a
\* listing, with their paths, subdirectories expanded in place; entries
\* that are neither a file nor a directory are skipped
RECURSIVE ReadSchemaDocuments(_, _)
ReadSchemaDocuments(schemaDirectoryPath, files) ==
    IF files = <<>> THEN <<>>
    ELSE LET f == Head(files)
             fullPath == Append(schemaDirectoryPath, f.name)
         IN (IF f.kind = "dir" THEN ReadSchemaDocuments(fullPath, f.entries)
             ELSE IF f.kind = "file" THEN <<[path |-> fullPath, content |-> f.content]>>
             ELSE <<>>) \o ReadSchemaDocuments(schemaDirectoryPath, Tail(files))

\* docs.join('\n')
RECURSIVE JoinNewline(_)
JoinNewline(docs) ==
    IF docs = <<>> THEN <<>>
    ELSE IF Len(docs) = 1 THEN <<docs[1]>>
    ELSE <<docs[1], "\n">> \o JoinNewline(Tail(docs))

\* a run of the loader: what it returns, the files read, the error thrown
Loaded(value, filesRead) == [error |-> NoError, value |-> value, reads |-> filesRead]
LoadFailed(err, filesRead) ==
    [error |-> err, value |-> [schema |-> <<>>, resolvers |-> <<>>, stacks |-> <<>>],
     reads |-> filesRead]

\* readSchema(projectDirectory): text is a sequence of pieces
ReadSchema(project) ==
    IF project.schemaFile.exists
    THEN Loaded(<<project.schemaFile.content>>, <<<<<<"schema.graphql">>>>>>)
    ELSE IF project.schemaDirectory.exists
    THEN LET docs == ReadSchemaDocuments(<<<<"schema">>>>, project.schemaDirectory.entries)
         IN Loaded(JoinNewline([i \in 1..Len(docs) |-> docs[i].content]),
                   [i \in 1..Len(docs) |-> docs[i].path])
    ELSE LoadFailed(Error("Could not find a schema"), <<>>)

\* `The CloudFormation template ${stackFiles} does not contain valid JSON.`:
\* the message is made from the listing, not from the file at hand
InvalidJsonError(stackFiles) ==
    [type |-> "Error", detail |-> <<"does not contain valid JSON", Keys(stackFiles)>>]

\* (mutant) the file is read before its name is looked at
ReadBeforeCheck(filesRead, p, bad) == Append(filesRead, p)
\* the files read when the loop leaves the file at p: throwIfNotJSON comes
\* before readFile
ReadUnlessThrown(filesRead, p, bad) == IF bad # NoError THEN filesRead ELSE Append(filesRead, p)

\* the loop over the files of the stacks directory, from the i-th on
RECURSIVE ReadStacks(_, _, _, _)
ReadStacks(stackFiles, i, stacks, filesRead) ==
    IF i > Len(stackFiles) THEN Loaded(stacks, filesRead)
    ELSE LET stackFile == stackFiles[i].k
             bad == ThrowIfNotJSON(stackFile)
             nowRead == ReadUnlessThrown(filesRead, <<<<"stacks">>, stackFile>>, bad)
         IN IF bad # NoError THEN LoadFailed(bad, nowRead)
            ELSE IF ~IsJson(stackFiles[i].v)
            THEN LoadFailed(InvalidJsonError(stackFiles), nowRead)
            ELSE ReadStacks(stackFiles, i + 1,
                            Put(stacks, stackFile, ParseFile(stackFiles[i].v)), nowRead)

\* if (stacksDirExists): the stacks of a stacks directory
LoadStacks(stacksDirectory, filesRead) ==
    ReadStacks(IF stacksDirectory.exists THEN stacksDirectory.files ELSE <<>>, 1, <<>>, filesRead)

\* readProjectConfiguration(projectDirectory)
ReadProjectConfiguration(project) ==
    LET schema == ReadSchema(project)
        resolvers == IF project.resolvers.exists THEN project.resolvers.files ELSE <<>>
        resolverReads == [i \in 1..Len(resolvers) |-> <<<<"resolvers">>, resolvers[i].k>>]
        stacks == LoadStacks(project.stacks, schema.reads \o resolverReads)
    IN IF schema.error # NoError THEN schema
       ELSE IF stacks.error # NoError THEN stacks
       ELSE Loaded([schema |-> schema.value, resolvers |-> resolvers, stacks |-> stacks.value],
                   stacks.reads)

(***************************************************************************)
(* Calls of buildProject                                                   *)
(***************************************************************************)
Doc(name, content) == [name |-> name, kind |-> "file", content |-> content, entries |-> <<>>]
Dir(name, entries) == [name |-> name, kind |-> "dir", content |-> "", entries |-> entries]
\* an entry lstat reports as neither a file nor a directory
Link(name) == [name |-> name, kind |-> "link", content |-> "", entries |-> <<>>]
SchemaFiles == {[exists |-> FALSE, content |-> ""], [exists |-> TRUE, content |-> "type A"]}
SchemaDirectories ==
    {[exists |-> FALSE, entries |-> <<>>],
     [exists |-> TRUE, entries |-> <<Doc(<<"b.graphql">>, "type B"),
                                     Dir(<<"sub">>, <<Doc(<<"c.graphql">>, "type C")>>),
                                     Doc(<<"d.graphql">>, "type D")>>]}
ResolverDirectories ==
    {[exists |-> FALSE, files |-> <<>>],
     [exists |-> TRUE, files |-> <<Entry(<<"Query.a.req.vtl">>, "user a")>>]}
StackDirectories ==
    {[exists |-> FALSE, files |-> <<>>],
     [exists |-> TRUE, files |-> <<Entry(DotJson(<<"a">>), Text("{\"Parameters\":{}}"))>>],
     [exists |-> TRUE, files |-> <<Entry(DotJson(<<"b">>), Text("{\"Resources\":{}}"))>>],
     [exists |-> TRUE, files |-> <<Entry(DotJson(<<"b">>), Text("{ \"Parameters\": {} }")),
                                   Entry(YmlName, Text("{\"Parameters\":{}}"))>>],
     [exists |-> TRUE, files |-> <<Entry(DotJson(<<"b">>), Text("Parameters:"))>>],
     [exists |-> TRUE,
      files |-> <<Entry(DotJson(<<"a", "1">>), Text("{\"Parameters\":{\"env\":{},\"AppSyncApiId\":{}}}")),
                  Entry(DotJson(<<"b">>), Text("{\"Parameters\":{\"own\":{}}}"))>>]}
Projects ==
    [schemaFile : SchemaFiles, schemaDirectory : SchemaDirectories,
     resolvers : ResolverDirectories, stacks : StackDirectories]

\* opts.transform.transform(schema) returns a bundle or throws
TransformError == [type |-> "InvalidSchemaError", detail |-> <<"transform">>]
Transforms ==
    {[throws |-> TRUE, output |-> NoBundle]}
    \cup {[throws |-> FALSE, output |-> t] : t \in TransformOutputs}

VARIABLES
    project,               \* the project directory, but for its build directory (disk)
    transform,             \* what opts.transform.transform does
    rootStackFileNameArg,  \* opts.rootStackFileName
    buildStatus,           \* of buildProject's promise: idle, resolved, rejected
    buildError,            \* what it rejected with
    failure,               \* the first failure of a component in the call: [of, error]
    unhandledRejection     \* the rejection of a promise nothing awaits

buildVars == <<project, transform, rootStackFileNameArg, buildStatus, buildError, failure,
               unhandledRejection>>

NoFailure == [of |-> "none", error |-> NoError]

\* (mutant) the write is made whatever the merge did
WriteReachedAlways(mergeEnded) == TRUE
\* line 18 is reached when the merge has returned
WriteReached(mergeEnded) == mergeEnded = "returned"

\* buildProject(opts) is called and runs to the end
BuildProject ==
    /\ buildStatus = "idle"
    /\ LET load == ReadProjectConfiguration(project)
           m == MergeUserConfigWithTransformOutput(load.value, transform.output)
           ws == WriteDeploymentToDisk(disk, m.value, RootStackFileName(rootStackFileNameArg))
       IN IF load.error # NoError
          THEN /\ buildStatus' = "rejected" /\ buildError' = load.error
               /\ failure' = [of |-> "readProjectConfiguration", error |-> load.error]
               /\ UNCHANGED <<mergeVars, writeVars, unhandledRejection>>
          ELSE IF transform.throws
          THEN /\ buildStatus' = "rejected" /\ buildError' = TransformError
               /\ failure' = [of |-> "transform", error |-> TransformError]
               /\ userConfig' = load.value
               /\ UNCHANGED <<transformOutput, transformInput, mergeStatus, mergeError, merged,
                              mergeCalls, writeVars, unhandledRejection>>
          ELSE /\ userConfig' = load.value
               /\ transformInput' = transform.output
               /\ transformOutput' = m.transform
               /\ mergeStatus' = m.status
               /\ mergeError' = m.error
               /\ mergeCalls' = mergeCalls + 1
               /\ IF ~WriteReached(m.status)
                  THEN /\ buildStatus' = "rejected" /\ buildError' = m.error
                       /\ failure' = [of |-> "merge", error |-> m.error]
                       /\ merged' = NoBundle
                       /\ UNCHANGED <<writeVars, unhandledRejection>>
                  ELSE \* line 18: the promise writeDeploymentToDisk returns is
                       \* not awaited, so buildProject returns whatever it does
                       /\ merged' = m.value
                       /\ Written(m.value, rootStackFileNameArg)
                       /\ failure' = IF ws.error # NoError
                                     THEN [of |-> "writeDeploymentToDisk", error |-> ws.error]
                                     ELSE NoFailure
                       /\ unhandledRejection' = ws.error
                       /\ buildStatus' = "resolved" /\ buildError' = NoError
    /\ UNCHANGED <<project, transform, rootStackFileNameArg>>

BuildInit ==
    /\ project \in Projects
    /\ transform \in Transforms
    /\ rootStackFileNameArg \in RootStackFileNameArgs
    /\ buildStatus = "idle"
    /\ buildError = NoError
    /\ failure = NoFailure
    /\ unhandledRejection = NoError

BuildIdle ==
    /\ project = [schemaFile |-> [exists |-> FALSE, content |-> ""],
                  schemaDirectory |-> [exists |-> FALSE, entries |-> <<>>],
                  resolvers |-> [exists |-> FALSE, files |-> <<>>],
                  stacks |-> [exists |-> FALSE, files |-> <<>>]]
    /\ transform = [throws |-> TRUE, output |-> NoBundle]
    /\ rootStackFileNameArg = [given |-> FALSE, name |-> <<>>]
    /\ buildStatus = "idle"
    /\ buildError = NoError
    /\ failure = NoFailure
    /\ unhandledRejection = NoError

(***************************************************************************)
(* Calls of readSchema and readProjectConfiguration                        *)
(***************************************************************************)
TxtName == <<"s", ".", "t", "x", "t">>
YamlName == <<"r", ".", "y", "a", "m", "l">>
NoDotName == <<"n", "o", "e", "x", "t">>
\* last extension json after a yml, and last extension yml after a json
YmlJsonName == <<"c", ".", "y", "m", "l", ".", "j", "s", "o", "n">>
JsonYmlName == <<"d", ".", "j", "s", "o", "n", ".", "y", "m", "l">>

LoadSchemaDirectories ==
    SchemaDirectories
    \cup {[exists |-> TRUE, entries |-> <<>>],
          [exists |-> TRUE, entries |-> <<Dir(<<"sub">>, <<Doc(<<"c.graphql">>, "type C"),
                                                           Link(<<"l.graphql">>),
                                                           Doc(<<"e.graphql">>, "type E")>>),
                                          Link(<<"m.graphql">>),
                                          Doc(<<"b.graphql">>, "type B"),
                                          Dir(<<"empty">>, <<>>)>>]}
LoadStackDirectories ==
    StackDirectories
    \cup {[exists |-> TRUE, files |-> <<Entry(name, Text("{\"Parameters\":{}}"))>>] :
             name \in {YamlName, TxtName, NoDotName, YmlJsonName, JsonYmlName}}
    \cup {[exists |-> TRUE, files |-> <<Entry(DotJson(<<"a">>), Text("{\"Parameters\":{}}")),
                                        Entry(name, Text("{\"Parameters\":{}}")),
                                        Entry(DotJson(<<"b">>), Text("Parameters:"))>>] :
             name \in {YmlName, TxtName, NoDotName}}
LoadProjects ==
    [schemaFile : SchemaFiles, schemaDirectory : LoadSchemaDirectories,
     resolvers : ResolverDirectories, stacks : LoadStackDirectories]

VARIABLES
    loadOp,     \* the loader function called: none, readSchema, readProjectConfiguration, readStacks
    loadError,  \* what it threw
    loadValue,  \* what it returned, as a bundle
    loadReads   \* the files it read, in order

loadVars == <<loadOp, loadError, loadValue, loadReads>>

NothingLoaded == [schema |-> <<>>, resolvers |-> <<>>, stacks |-> <<>>]

\* readSchema(projectDirectory) is called
ReadSchemaCalled ==
    /\ loadOp = "none"
    /\ LET r == ReadSchema(project)
       IN /\ loadError' = r.error
          /\ loadValue' = IF r.error = NoError THEN [NothingLoaded EXCEPT !.schema = r.value]
                          ELSE NothingLoaded
          /\ loadReads' = r.reads
    /\ loadOp' = "readSchema"

\* readProjectConfiguration(projectDirectory) is called
ReadProjectConfigurationCalled ==
    /\ loadOp = "none"
    /\ LET r == ReadProjectConfiguration(project)
       IN /\ loadError' = r.error
          /\ loadValue' = r.value
          /\ loadReads' = r.reads
    /\ loadOp' = "readProjectConfiguration"

LoadIdle ==
    /\ loadOp = "none"
    /\ loadError = NoError
    /\ loadValue = NothingLoaded
    /\ loadReads = <<>>

(***************************************************************************)
(* Reading back the stacks directory writeDeploymentToDisk has written     *)
(***************************************************************************)
\* bundles with stacks kept as raw JSON text
RawStackChoices ==
    {<<Entry(DotJson(<<"p">>), RawText("{ \"Parameters\": {} }"))>>,
     <<Entry(DotJson(<<"p">>), RawText("{\"Parameters\":{\"own\":{}}}")),
       Entry(DotJson(<<"a">>), Template(TRUE, {"env"}, "user"))>>,
     <<Entry(<<"q">>, RawText("{ }")), Entry(DotJson(<<"p">>), RawText("{\"Resources\":{}}"))>>,
     <<Entry(DotJson(<<"p">>), RawText("{\"Resources\":{}}")),
       Entry(<<"p">>, Template(TRUE, {}, "generated"))>>,
     <<Entry(YmlName, RawText("{ }")), Entry(DotJson(<<"p">>), RawText("{ }"))>>,
     <<Entry(<<"q">>, Template(TRUE, {}, "generated")), Entry(TxtName, RawText("{ }")),
       Entry(DotJson(<<"p">>), RawText("{ }"))>>,
     <<Entry(YmlJsonName, RawText("{ }")), Entry(JsonYmlName, Template(TRUE, {}, "generated"))>>}
RawDeployments ==
    {[schema |-> <<"type A">>, resolvers |-> <<>>, stacks |-> st,
      rootStack |-> [Resources |-> <<>>, Parameters |-> {"env"}], functions |-> <<>>] :
        st \in RawStackChoices}

\* writeDeploymentToDisk is called with a bundle holding raw-text stacks
WriteRawStacks ==
    /\ writeCalls < MaxWrites
    /\ loadOp = "none"
    /\ \E deployment \in RawDeployments, arg \in RootStackFileNameArgs : Written(deployment, arg)

\* the orders fs.readdir can list a set of names in
Listings(names) ==
    {order \in [1..Cardinality(names) -> names] :
        \A i, j \in 1..Cardinality(names) : order[i] = order[j] => i = j}

\* the stacks directory of the target directory, as the loader sees it
WrittenStacksDirectory(order) ==
    [exists |-> StacksDir \in DOMAIN disk,
     files |-> [i \in 1..Len(order) |-> Entry(Last(order[i]), disk[order[i]].content)]]

\* the stack-loading step of readProjectConfiguration runs on the stacks
\* directory that was written
ReadWrittenStacks ==
    /\ lastWrite.called
    /\ loadOp = "none"
    /\ \E order \in Listings(Children(disk, StacksDir)) :
          LET r == LoadStacks(WrittenStacksDirectory(order), <<>>)
          IN /\ loadError' = r.error
             /\ loadValue' = IF r.error = NoError THEN [NothingLoaded EXCEPT !.stacks = r.value]
                             ELSE NothingLoaded
             /\ loadReads' = r.reads
    /\ loadOp' = "readStacks"

(***************************************************************************)
(* SSMClientWrapper.deleteSecret and deleteSecrets                         *)
(*                                                                         *)
(* The SSM client is the environment: its deleteParameter(s) promise       *)
(* resolves, or rejects with an error carrying some code.                  *)
(***************************************************************************)
SecretNames == {"/amplify/a", "/amplify/b", "/amplify/c"}
SecretNameLists ==
    {<<>>, <<"/amplify/a">>, <<"/amplify/a", "/amplify/b">>, <<"/amplify/b", "/amplify/c">>,
     <<"/amplify/a", "/amplify/b", "/amplify/c">>}
\* err.code of the errors the client rejects with; "undefined" is an error
\* without a code
SdkErrorCodes ==
    {"ParameterNotFound", "AccessDeniedException", "ThrottlingException",
     "InternalServerError", "undefined"}
SdkError(code, request) == [code |-> code, request |-> request]
NoSdkError == [code |-> "none", request |-> 0]

VARIABLES
    ssmOp,          \* the call in hand: [fn, names], fn = none before the first
    ssmPhase,       \* idle, pending (the client's promise is not settled), resolved, rejected
    ssmUnderlying,  \* what the client's promise rejected with
    ssmError,       \* what the wrapper's promise rejected with
    ssmCalls        \* calls made so far

ssmVars == <<ssmOp, ssmPhase, ssmUnderlying, ssmError, ssmCalls>>

\* (mutant) every error of the client is swallowed
SwallowedAll(code) == TRUE
\* if (err.code !== 'ParameterNotFound') throw err
Swallowed(code) == code = "ParameterNotFound"

SsmCall(fn, names) ==
    /\ ssmPhase # "pending"
    /\ ssmCalls < MaxSsmCalls
    /\ ssmOp' = [fn |-> fn, names |-> names]
    /\ ssmPhase' = "pending"
    /\ ssmUnderlying' = NoSdkError
    /\ ssmError' = NoSdkError
    /\ ssmCalls' = ssmCalls + 1

\* deleteSecret(secretName) is called: ssmClient.deleteParameter({Name}).promise()
DeleteSecret == \E secretName \in SecretNames : SsmCall("deleteSecret", <<secretName>>)

\* deleteSecrets(secretNames) is called: ssmClient.deleteParameters({Names}).promise()
DeleteSecrets == \E secretNames \in SecretNameLists : SsmCall("deleteSecrets", secretNames)

\* the client's promise resolves
SdkResolves ==
    /\ ssmPhase = "pending"
    /\ ssmPhase' = "resolved"
    /\ UNCHANGED <<ssmOp, ssmUnderlying, ssmError, ssmCalls>>

\* the client's promise rejects with err: the .catch callback of deleteSecret,
\* or the catch block of deleteSecrets, runs
SdkRejects ==
    /\ ssmPhase = "pending"
    /\ \E code \in SdkErrorCodes :
          LET err == SdkError(code, ssmCalls)
          IN /\ ssmUnderlying' = err
             /\ IF Swallowed(err.code)
                THEN ssmPhase' = "resolved" /\ ssmError' = NoSdkError
                ELSE ssmPhase' = "rejected" /\ ssmError' = err
    /\ UNCHANGED <<ssmOp, ssmCalls>>

SsmInit ==
    /\ ssmOp = [fn |-> "none", names |-> <<>>]
    /\ ssmPhase = "idle"
    /\ ssmUnderlying = NoSdkError
    /\ ssmError = NoSdkError
    /\ ssmCalls = 0

(***************************************************************************)
(* Calls of emptyDirectory                                                 *)
(***************************************************************************)
\* the directories emptyDirectory is called on: every choice of a file x,
\* a file v, a directory e with a file w, and a directory d with a file y
\* and a directory dd with a file z
Optional(p, content) == {EmptyMap, p :> content}
Combine(as, bs) == {a @@ b : a \in as, b \in bs}
EmptyDisks ==
    LET dd == {EmptyMap}
              \cup Combine({<<<<"d">>, <<"dd">>>> :> Directory},
                           Optional(<<<<"d">>, <<"dd">>, <<"z.txt">>>>, Stale("z")))
        d == {EmptyMap}
             \cup Combine({<<<<"d">>>> :> Directory},
                          Combine(Optional(<<<<"d">>, <<"y.txt">>>>, Stale("y")), dd))
        e == {EmptyMap}
             \cup Combine({<<<<"e">>>> :> Directory},
                          Optional(<<<<"e">>, <<"w.txt">>>>, Stale("w")))
        top == Combine(Optional(<<<<"x.txt">>>>, Stale("x")),
                       Optional(<<<<"v.txt">>>>, Stale("v")))
    IN {EmptyMap} \cup Combine({<<>> :> Directory}, Combine(top, Combine(d, e)))

NoEmpty == [called |-> FALSE, directory |-> <<>>, before |-> EmptyMap, log |-> <<>>,
            error |-> NoError]

VARIABLES
    lastEmpty   \* the call of emptyDirectory: its argument, the disk before, calls, error

emptyVars == <<lastEmpty>>

\* emptyDirectory(directory) is called on the target directory or on a
\* directory below it
EmptyDirectoryCalled ==
    /\ ~lastEmpty.called
    /\ \E directory \in {<<>>} \cup {p \in DOMAIN disk : disk[p].kind = "dir"} :
          LET ws == EmptyDirectory([disk |-> disk, log |-> <<>>, error |-> NoError], directory)
          IN /\ disk' = ws.disk
             /\ lastEmpty' = [called |-> TRUE, directory |-> directory, before |-> disk,
                              log |-> ws.log, error |-> ws.error]
    /\ UNCHANGED <<lastWrite, prevWrite, writeCalls>>

EmptyInit ==
    /\ disk \in EmptyDisks
    /\ lastWrite = NoWrite
    /\ prevWrite = NoWrite
    /\ writeCalls = 0
    /\ lastEmpty = NoEmpty

EmptyIdle == lastEmpty = NoEmpty

(***************************************************************************)
(* SSMClientWrapper.getInstance                                            *)
(*                                                                         *)
(* Every call is an async function: it runs to its await of getSSMClient   *)
(* and goes on when the promise of getSSMClient settles, other calls in    *)
(* between.                                                                *)
(***************************************************************************)
Callers == 1..MaxCallers
\* SSMClientWrapper.instance before the first assignment
NoInstance == 0
NotCalled == [pc |-> "idle", got |-> NoInstance]

VARIABLES
    instance,      \* SSMClientWrapper.instance: NoInstance or the number of a wrapper
    callers,       \* for each call of getInstance: where it is and what it returned
    acquisitions,  \* calls of getSSMClient made
    constructed    \* wrappers constructed

instanceVars == <<instance, callers, acquisitions, constructed>>

\* if (!SSMClientWrapper.instance)
MustAcquire(current) == current = NoInstance

\* getInstance(context) is called: it returns the instance there is, or
\* calls getSSMClient and awaits it
GetInstance(c) ==
    /\ callers[c].pc = "idle"
    /\ IF MustAcquire(instance)
       THEN /\ callers' = [callers EXCEPT ![c].pc = "awaiting"]
            /\ acquisitions' = acquisitions + 1
       ELSE /\ callers' = [callers EXCEPT ![c] = [pc |-> "returned", got |-> instance]]
            /\ acquisitions' = acquisitions
    /\ UNCHANGED <<instance, constructed>>

\* the promise of getSSMClient resolves for call c: a wrapper is constructed,
\* assigned to SSMClientWrapper.instance and returned
ClientResolves(c) ==
    /\ callers[c].pc = "awaiting"
    /\ constructed' = constructed + 1
    /\ instance' = constructed + 1
    /\ callers' = [callers EXCEPT ![c] = [pc |-> "returned", got |-> constructed + 1]]
    /\ UNCHANGED acquisitions

\* the promise of getSSMClient rejects for call c: getInstance rejects
ClientRejects(c) ==
    /\ callers[c].pc = "awaiting"
    /\ callers' = [callers EXCEPT ![c].pc = "rejected"]
    /\ UNCHANGED <<instance, acquisitions, constructed>>

InstanceIdle ==
    /\ instance = NoInstance
    /\ callers = [c \in Callers |-> NotCalled]
    /\ acquisitions = 0
    /\ constructed = 0

(***************************************************************************)
(* The Git class of the release-merge script.  A command line is a         *)
(* sequence of pieces (words, parts of words, single spaces); a word is a  *)
(* sequence of pieces.                                                     *)
(***************************************************************************)
MaxGitCalls == 2

Space == " "
Word(s) == <<s>>
\* an argument the caller did not supply: undefined
Omitted == <<"<omitted>">>
\* '' is the word without pieces; if (x) is false for undefined and for ''
Truthy(w) == w # Omitted /\ w # <<>>
\* `${w}` in a template string
Interpolate(w) == IF w = Omitted THEN <<"undefined">> ELSE w
\* command.join(' '): undefined elements are joined as ''
RECURSIVE JoinSpace(_)
JoinSpace(command) ==
    IF command = <<>> THEN <<>>
    ELSE LET first == IF Head(command) = Omitted THEN <<>> ELSE Head(command)
         IN IF Len(command) = 1 THEN first
            ELSE first \o <<Space>> \o JoinSpace(Tail(command))

\* remote(verbose)
RemoteCommand(verbose) ==
    JoinSpace(<<Word("git"), Word("remote")>> \o (IF verbose THEN <<Word("-v")>> ELSE <<>>))
\* isExistingBranch(branch)
IsExistingBranchCommand(branch) ==
    JoinSpace(<<Word("git"), Word("rev-parse"), Word("--verify"), branch>>)
\* getShortSha(ref)
GetShortShaCommand(ref) ==
    JoinSpace(<<Word("git"), Word("rev-parse"), Word("--short"),
                IF ref = Omitted THEN Word("HEAD") ELSE ref>>)
\* pull(remote, branch)
PullCommand(remote, branch) ==
    JoinSpace(<<Word("git"), Word("pull")>>
              \o (IF Truthy(remote)
                  THEN <<remote>> \o (IF Truthy(branch) THEN <<branch>> ELSE <<>>)
                  ELSE <<>>))
\* checkout(branch, create)
CheckoutCommand(branch, create) ==
    JoinSpace(<<Word("git"), Word("checkout")>>
              \o (IF create THEN <<Word("-b")>> ELSE <<>>) \o <<branch>>)
\* merge(branch, {message, mode})
MergeCommand(branch, message, mode) ==
    JoinSpace(<<Word("git"), Word("merge"), branch>>
              \o (IF Truthy(message)
                  THEN <<Word("-m"), <<"\"">> \o message \o <<"\"">> >> ELSE <<>>)
              \o (IF Truthy(mode) THEN << <<"--">> \o mode >> ELSE <<>>))
\* push(remote, branch)
PushCommand(remote, branch) == JoinSpace(<<Word("git"), Word("push"), remote, branch>>)
\* fetch(remote, branch): the array `command` the method assembles
FetchCommand(remote, branch) ==
    <<Word("git"), Word("fetch"), remote>> \o (IF Truthy(branch) THEN <<branch>> ELSE <<>>)
\* fetch(remote, branch): what the method hands to execSync, the template
\* string `git fetch ${remote} ${branch}`
FetchExecuted(remote, branch) ==
    <<"git", Space, "fetch", Space>> \o Interpolate(remote) \o <<Space>> \o Interpolate(branch)
\* isCleanWorkingTree()
StatusCommand == <<"git", Space, "status", Space, "--porcelain">>

Remotes == {Word("upstream"), Word("origin")}
Branches == {Word("main"), Word("dev"), <<>>, Omitted}
MergeMessages == {Word("merge message"), Omitted}
MergeModes == {Word("ff-only"), Omitted}

VARIABLES
    gitLog   \* the calls made on a Git object: method, arguments, command executed

gitVars == <<gitLog>>

GitCall(method, args, executed) == [method |-> method, args |-> args, executed |-> executed]
ExecSync(call) ==
    /\ Len(gitLog) < MaxGitCalls
    /\ gitLog' = Append(gitLog, call)

GitFetch ==
    \E remote \in Remotes, branch \in Branches :
        ExecSync(GitCall("fetch", <<remote, branch>>, FetchExecuted(remote, branch)))
GitPull ==
    \E remote \in Remotes \cup {Omitted}, branch \in Branches :
        ExecSync(GitCall("pull", <<remote, branch>>, PullCommand(remote, branch)))
GitPush ==
    \E remote \in Remotes, branch \in Branches \ {Omitted} :
        ExecSync(GitCall("push", <<remote, branch>>, PushCommand(remote, branch)))
GitCheckout ==
    \E branch \in Branches \ {Omitted}, create \in BOOLEAN :
        ExecSync(GitCall("checkout", <<branch, IF create THEN Word("create") ELSE Omitted>>,
                         CheckoutCommand(branch, create)))
GitMerge ==
    \E branch \in Branches \ {Omitted}, message \in MergeMessages, mode \in MergeModes :
        ExecSync(GitCall("merge", <<branch, message, mode>>,
                         MergeCommand(branch, message, mode)))

GitIdle == gitLog = <<>>

(***************************************************************************)
(* main() of the release-merge script                                      *)
(***************************************************************************)
\* a line of `git remote -v`: the name of the remote and the repository of
\* its URL
RemoteLine(name, repository) == [name |-> name, repository |-> repository]
UpstreamRepository == "aws-amplify/amplify-cli"
RemoteOutputs ==
    {<<>>,
     <<RemoteLine(Word("origin"), "someonesfork/amplify-cli")>>,
     <<RemoteLine(Word("origin"), "someonesfork/amplify-cli"),
       RemoteLine(Word("upstream"), UpstreamRepository)>>}

\* extractUpstreamNameFromRemotes: the first word of the first line that
\* names the repository, undefined when no line does
ExtractUpstreamNameFromRemotes(remoteGitVerbose, upstreamRepositoryName) ==
    LET lines == SelectSeq(remoteGitVerbose, LAMBDA l : l.repository = upstreamRepositoryName)
    IN IF lines = <<>> THEN Omitted ELSE Head(lines).name

\* the calls of execSync main makes, by where in main they are made
MainSteps ==
    {"isCleanWorkingTree", "remote", "fetch", "getShortSha", "checkoutDev", "pull",
     "checkoutMerge", "merge", "isCleanAfterMerge", "push"}
NoStep == "none"

\* what a run of main meets: its arguments, the state of the repository,
\* and the call of execSync that fails, if one does
ReleaseRuns ==
    [cleanAtStart : BOOLEAN, remoteOutput : RemoteOutputs, continueArg : BOOLEAN,
     mergeBranchArg : {Omitted, Word("my-merge")}, mergeBranchExists : BOOLEAN,
     cleanAfterMerge : BOOLEAN, failing : MainSteps \cup {NoStep}]

ReleaseBranch == Word("main")
DevBranch == Word("dev")
ReleaseSha == Word("abc1234")
MergeMessage == Word("chore: merge release commit from main to dev")
Running == -1

VARIABLES
    relRun,     \* what this run of main meets
    relPc,      \* "start", "asking" (at the prompt of shouldContinue), "exited"
    relExit,    \* the status the process exited with, Running before
    relLog,     \* the commands handed to execSync, in order, and whether each succeeded
    relChecked  \* what isExistingBranch returned: "unknown" before it was called

releaseVars == <<relRun, relPc, relExit, relLog, relChecked>>

\* one call of execSync in main: a failing call throws, main's promise
\* rejects and the catch of line 223 exits with status 1
Exec(st, step, command) ==
    IF st.exit # Running THEN st
    ELSE IF relRun.failing = step
    THEN [st EXCEPT !.log = Append(@, [step |-> step, command |-> command, ok |-> FALSE]),
                    !.exit = 1]
    ELSE [st EXCEPT !.log = Append(@, [step |-> step, command |-> command, ok |-> TRUE])]
\* process.exit(code) when the condition holds
ExitIf(st, condition, code) ==
    IF st.exit = Running /\ condition THEN [st EXCEPT !.exit = code] ELSE st

UpstreamName == ExtractUpstreamNameFromRemotes(relRun.remoteOutput, UpstreamRepository)
ReleaseRef == UpstreamName \o <<"/">> \o ReleaseBranch
\* mergeBranchArg ?? 'dev-main-merge-' + releaseSha
MergeBranch ==
    IF relRun.mergeBranchArg = Omitted THEN <<"dev-main-merge-">> \o ReleaseSha
    ELSE relRun.mergeBranchArg

\* (mutant) the merge branch is pushed whatever the working tree looks like
StopsBeforePushNever(clean) == FALSE
\* if (!git.isCleanWorkingTree()) after the merge
StopsBeforePush(clean) == ~clean

\* main from its start to the prompt of shouldContinue or to its exit
MainToPrompt ==
    LET s0 == [log |-> <<>>, exit |-> Running, checked |-> "unknown"]
        s1 == ExitIf(Exec(s0, "isCleanWorkingTree", StatusCommand),
                     ~relRun.cleanAtStart, 2)
        s2 == ExitIf(Exec(s1, "remote", RemoteCommand(TRUE)), ~Truthy(UpstreamName), 1)
        s3 == Exec(s2, "fetch", FetchExecuted(UpstreamName, ReleaseBranch))
        s4 == Exec(s3, "getShortSha", GetShortShaCommand(ReleaseRef))
        s5 == IF s4.exit # Running THEN s4
              ELSE [s4 EXCEPT
                      !.log = Append(@, [step |-> "isExistingBranch",
                                         command |-> IsExistingBranchCommand(MergeBranch),
                                         ok |-> relRun.mergeBranchExists]),
                      !.checked = IF relRun.mergeBranchExists THEN "exists" ELSE "absent"]
    IN ExitIf(s5, ~relRun.continueArg /\ s5.checked = "exists", 1)

\* main after the prompt
MainAfterPrompt(st) ==
    LET s1 == Exec(st, "checkoutDev", CheckoutCommand(DevBranch, FALSE))
        s2 == Exec(s1, "pull", PullCommand(Omitted, Omitted))
        \* a failing checkout of the merge branch is caught: exit 1 either way
        s3 == Exec(s2, "checkoutMerge", CheckoutCommand(MergeBranch, st.checked # "exists"))
        s4 == Exec(s3, "merge", MergeCommand(ReleaseRef, MergeMessage, Omitted))
        s5 == ExitIf(Exec(s4, "isCleanAfterMerge", StatusCommand),
                     StopsBeforePush(relRun.cleanAfterMerge), 0)
        s6 == Exec(s5, "push", PushCommand(UpstreamName, MergeBranch))
    IN ExitIf(s6, TRUE, 0)

Leave(st) ==
    /\ relLog' = st.log
    /\ relExit' = st.exit
    /\ relChecked' = st.checked
    /\ relPc' = "exited"

\* main() is called: with --continue it runs to its end, else it stops at
\* the prompt unless it has exited before
MainCalled ==
    /\ relPc = "start"
    /\ LET st == MainToPrompt
       IN IF st.exit # Running THEN Leave(st)
          ELSE IF relRun.continueArg THEN Leave(MainAfterPrompt(st))
          ELSE /\ relLog' = st.log
               /\ relChecked' = st.checked
               /\ relPc' = "asking"
               /\ UNCHANGED relExit
    /\ UNCHANGED relRun

\* what the user may type at the prompt
Answers == {"y", " Y ", "n", "yes", ""}
\* shouldContinue: answer.toLowerCase().trim() === 'y'
ShouldContinue(answer) == answer \in {"y", "Y", " y ", " Y ", "y ", " y", "Y ", " Y"}

\* the user answers the prompt: only y (in any case, with spaces around)
\* lets main go on
Answered ==
    /\ relPc = "asking"
    /\ \E answer \in Answers :
          LET st == [log |-> relLog, exit |-> Running, checked |-> relChecked]
          IN IF ShouldContinue(answer) THEN Leave(MainAfterPrompt(st))
             ELSE Leave(ExitIf(st, TRUE, 0))
    /\ UNCHANGED relRun

ReleaseInit ==
    /\ relRun \in ReleaseRuns
    /\ relPc = "start"
    /\ relExit = Running
    /\ relLog = <<>>
    /\ relChecked = "unknown"

ReleaseIdle ==
    /\ relRun = [cleanAtStart |-> FALSE, remoteOutput |-> <<>>, continueArg |-> FALSE,
                 mergeBranchArg |-> Omitted, mergeBranchExists |-> FALSE,
                 cleanAfterMerge |-> FALSE, failing |-> NoStep]
    /\ relPc = "start"
    /\ relExit = Running
    /\ relLog = <<>>
    /\ relChecked = "unknown"

(***************************************************************************)
(* SSMClientWrapper.getSecretNamesByPath                                   *)
(***************************************************************************)
MaxPages == 3

\* NextToken before the first response, and in a response that is the last
NoToken == "undefined"
PageTokens == {"t1", "t2"}
PageNames == {<<>>, <<"/amplify/a">>, <<"/amplify/b", "/amplify/c">>}
\* a response of getParametersByPath
Page(names, token) == [Parameters |-> names, NextToken |-> token]
NoResult == <<"<none>">>

VARIABLES
    pagePc,        \* idle, awaiting (a response), returned, rejected
    pageToken,     \* the local NextToken
    accumulator,   \* the local accumulator
    pageRequests,  \* the NextToken of every request made, in order
    pageResponses, \* the responses received, in order
    pageResult,    \* what the promise of getSecretNamesByPath resolved with
    pageError      \* what it rejected with

pageVars == <<pagePc, pageToken, accumulator, pageRequests, pageResponses, pageResult,
              pageError>>

\* (mutant) the accumulator holds the names of the last page only
PushNamesOfLastPage(acc, result) == result.Parameters
\* accumulator.push(...result.Parameters.map((param) => param.Name))
PushNames(acc, result) == acc \o result.Parameters

\* while (NextToken)
AnotherPage(token) == token # NoToken /\ token # ""

\* getSecretNamesByPath(secretPath) is called: the first request goes out
\* with NextToken undefined
GetSecretNamesByPath ==
    /\ pagePc = "idle"
    /\ pagePc' = "awaiting"
    /\ pageRequests' = Append(pageRequests, pageToken)
    /\ UNCHANGED <<pageToken, accumulator, pageResponses, pageResult, pageError>>

\* a request resolves with a page: its names are pushed and its NextToken
\* kept; with a token the next request goes out, without one the
\* accumulator is returned.  The service sends at most MaxPages pages.
PageResolves ==
    /\ pagePc = "awaiting"
    /\ \E names \in PageNames,
          token \in (IF Len(pageResponses) + 1 < MaxPages THEN PageTokens ELSE {}) \cup {NoToken} :
          LET result == Page(names, token)
              acc == PushNames(accumulator, result)
          IN /\ pageResponses' = Append(pageResponses, result)
             /\ accumulator' = acc
             /\ pageToken' = result.NextToken
             /\ IF AnotherPage(result.NextToken)
                THEN /\ pageRequests' = Append(pageRequests, result.NextToken)
                     /\ UNCHANGED <<pagePc, pageResult>>
                ELSE /\ pagePc' = "returned"
                     /\ pageResult' = acc
                     /\ UNCHANGED pageRequests
    /\ UNCHANGED pageError

\* a request rejects: the await throws and getSecretNamesByPath rejects
\* with the same error
PageRejects ==
    /\ pagePc = "awaiting"
    /\ \E code \in SdkErrorCodes :
          pageError' = SdkError(code, Len(pageRequests))
    /\ pagePc' = "rejected"
    /\ UNCHANGED <<pageToken, accumulator, pageRequests, pageResponses, pageResult>>

PagesIdle ==
    /\ pagePc = "idle"
    /\ pageToken = NoToken
    /\ accumulator = <<>>
    /\ pageRequests = <<>>
    /\ pageResponses = <<>>
    /\ pageResult = NoResult
    /\ pageError = NoSdkError

UploadInit ==
    /\ tree \in Trees
    /\ optsDirectory \in {"missing", "absent", "root"}
    /\ optsUpload \in {"missing", "notfunction", "function"}
    /\ stack = <<>>
    /\ calls = <<>>
    /\ outcomes = <<>>
    /\ waits = <<>>
    /\ inFlight = 0
    /\ timerPending = FALSE
    /\ reads = <<>>
    /\ listings = <<>>
    /\ status = "idle"
    /\ error = NoError
    /\ fsFault = NoFault

\* the file system calls of a walk of the tree that can fail
FaultsOf(t) ==
    {Fault("readdir", p, "EACCES") : p \in {<<>>} \cup {q \in DOMAIN t : t[q].kind = "dir"}}
    \cup {Fault("lstat", p, "ENOENT") : p \in DOMAIN t}
    \cup {Fault("readFile", p, "EISDIR") : p \in {q \in DOMAIN t : t[q].kind = "file"}}

\* the trees walked in the runs with a failing file system call
MaxFaultEntries == 4
FaultTrees == {t \in Trees : Cardinality(DOMAIN t) <= MaxFaultEntries}

\* a run in which one file system call fails, the options being in order
FaultInit ==
    /\ tree \in FaultTrees
    /\ optsDirectory = "root"
    /\ optsUpload = "function"
    /\ stack = <<>>
    /\ calls = <<>>
    /\ outcomes = <<>>
    /\ waits = <<>>
    /\ inFlight = 0
    /\ timerPending = FALSE
    /\ reads = <<>>
    /\ listings = <<>>
    /\ status = "idle"
    /\ error = NoError
    /\ fsFault \in FaultsOf(tree)


vars == <<uploadVars, mergeVars, writeVars, buildVars, loadVars, ssmVars, emptyVars,
          instanceVars, gitVars, releaseVars, pageVars>>

\* uploadDeployment on a directory tree
Init == UploadInit /\ MergeIdle /\ WriteIdle /\ BuildIdle /\ LoadIdle /\ SsmInit /\ EmptyIdle /\ InstanceIdle
    /\ GitIdle /\ ReleaseIdle /\ PagesIdle

Next ==
    \/ UploadDeployment /\ UNCHANGED <<mergeVars, writeVars, buildVars, loadVars, ssmVars, emptyVars, instanceVars, gitVars, releaseVars, pageVars>>
    \/ UploadResolves /\ UNCHANGED <<mergeVars, writeVars, buildVars, loadVars, ssmVars, emptyVars, instanceVars, gitVars, releaseVars, pageVars>>
    \/ UploadRejects /\ UNCHANGED <<mergeVars, writeVars, buildVars, loadVars, ssmVars, emptyVars, instanceVars, gitVars, releaseVars, pageVars>>
    \/ TimerFires /\ UNCHANGED <<mergeVars, writeVars, buildVars, loadVars, ssmVars, emptyVars, instanceVars, gitVars, releaseVars, pageVars>>

Spec == Init /\ [][Next]_vars

\* uploadDeployment on a directory tree one of whose file system calls fails
InitFault ==
    FaultInit /\ MergeIdle /\ WriteIdle /\ BuildIdle /\ LoadIdle /\ SsmInit /\ EmptyIdle
    /\ InstanceIdle
    /\ GitIdle /\ ReleaseIdle /\ PagesIdle

SpecFault == InitFault /\ [][Next]_vars

\* the merge of a user configuration into a transform output
InitMerge == MergeInit /\ UploadIdle /\ WriteIdle /\ BuildIdle /\ LoadIdle /\ SsmInit /\ EmptyIdle /\ InstanceIdle
    /\ GitIdle /\ ReleaseIdle /\ PagesIdle

NextMerge == Merge /\ UNCHANGED <<uploadVars, writeVars, buildVars, loadVars, ssmVars, emptyVars, instanceVars, gitVars, releaseVars, pageVars>>

SpecMerge == InitMerge /\ [][NextMerge]_vars

\* calls of writeDeploymentToDisk on one directory
InitWrite == WriteInit /\ UploadIdle /\ MergeIdle /\ BuildIdle /\ LoadIdle /\ SsmInit /\ EmptyIdle /\ InstanceIdle
    /\ GitIdle /\ ReleaseIdle /\ PagesIdle

NextWrite == Write /\ UNCHANGED <<uploadVars, mergeVars, buildVars, loadVars, ssmVars, emptyVars, instanceVars, gitVars, releaseVars, pageVars>>

SpecWrite == InitWrite /\ [][NextWrite]_vars

\* buildProject on a project directory
InitBuild == BuildInit /\ WriteInit /\ MergeIdle /\ UploadIdle /\ LoadIdle /\ SsmInit /\ EmptyIdle /\ InstanceIdle
    /\ GitIdle /\ ReleaseIdle /\ PagesIdle

NextBuild == BuildProject /\ UNCHANGED <<uploadVars, loadVars, ssmVars, emptyVars, instanceVars, gitVars, releaseVars, pageVars>>

SpecBuild == InitBuild /\ [][NextBuild]_vars

\* readSchema and readProjectConfiguration on a project directory
InitLoad ==
    /\ project \in LoadProjects
    /\ transform = [throws |-> TRUE, output |-> NoBundle]
    /\ rootStackFileNameArg = [given |-> FALSE, name |-> <<>>]
    /\ buildStatus = "idle"
    /\ buildError = NoError
    /\ failure = NoFailure
    /\ unhandledRejection = NoError
    /\ LoadIdle /\ UploadIdle /\ MergeIdle /\ WriteIdle /\ SsmInit /\ EmptyIdle /\ InstanceIdle
    /\ GitIdle /\ ReleaseIdle /\ PagesIdle

NextLoad ==
    \/ ReadSchemaCalled /\ UNCHANGED <<uploadVars, mergeVars, writeVars, buildVars, ssmVars, emptyVars, instanceVars, gitVars, releaseVars, pageVars>>
    \/ ReadProjectConfigurationCalled
          /\ UNCHANGED <<uploadVars, mergeVars, writeVars, buildVars, ssmVars, emptyVars, instanceVars, gitVars, releaseVars, pageVars>>

SpecLoad == InitLoad /\ [][NextLoad]_vars

\* writeDeploymentToDisk, then the loader's stack-loading step on what it wrote
InitReadBack == WriteInit /\ LoadIdle /\ UploadIdle /\ MergeIdle /\ BuildIdle /\ SsmInit /\ EmptyIdle /\ InstanceIdle
    /\ GitIdle /\ ReleaseIdle /\ PagesIdle

NextReadBack ==
    \/ WriteRawStacks /\ UNCHANGED <<uploadVars, mergeVars, buildVars, loadVars, ssmVars, emptyVars, instanceVars, gitVars, releaseVars, pageVars>>
    \/ ReadWrittenStacks /\ UNCHANGED <<uploadVars, mergeVars, writeVars, buildVars, ssmVars, emptyVars, instanceVars, gitVars, releaseVars, pageVars>>

SpecReadBack == InitReadBack /\ [][NextReadBack]_vars

\* deleteSecret and deleteSecrets of the SSM client wrapper
InitSsm ==
    SsmInit /\ LoadIdle /\ UploadIdle /\ MergeIdle /\ WriteIdle /\ BuildIdle /\ EmptyIdle
    /\ InstanceIdle
    /\ GitIdle /\ ReleaseIdle /\ PagesIdle

NextSsm ==
    \/ DeleteSecret /\ UNCHANGED <<uploadVars, mergeVars, writeVars, buildVars, loadVars, emptyVars, instanceVars, gitVars, releaseVars, pageVars>>
    \/ DeleteSecrets /\ UNCHANGED <<uploadVars, mergeVars, writeVars, buildVars, loadVars, emptyVars, instanceVars, gitVars, releaseVars, pageVars>>
    \/ SdkResolves /\ UNCHANGED <<uploadVars, mergeVars, writeVars, buildVars, loadVars, emptyVars, instanceVars, gitVars, releaseVars, pageVars>>
    \/ SdkRejects /\ UNCHANGED <<uploadVars, mergeVars, writeVars, buildVars, loadVars, emptyVars, instanceVars, gitVars, releaseVars, pageVars>>

SpecSsm == InitSsm /\ [][NextSsm]_vars

\* emptyDirectory on a directory
InitEmpty ==
    EmptyInit /\ UploadIdle /\ MergeIdle /\ BuildIdle /\ LoadIdle /\ SsmInit /\ InstanceIdle
    /\ GitIdle /\ ReleaseIdle /\ PagesIdle

NextEmpty ==
    EmptyDirectoryCalled
        /\ UNCHANGED <<uploadVars, mergeVars, buildVars, loadVars, ssmVars, instanceVars, gitVars, releaseVars, pageVars>>

SpecEmpty == InitEmpty /\ [][NextEmpty]_vars

\* calls of SSMClientWrapper.getInstance
InitInstance ==
    InstanceIdle /\ SsmInit /\ LoadIdle /\ UploadIdle /\ MergeIdle /\ WriteIdle /\ BuildIdle
    /\ EmptyIdle
    /\ GitIdle /\ ReleaseIdle /\ PagesIdle

NextInstance ==
    \/ \E c \in Callers : GetInstance(c)
          /\ UNCHANGED <<uploadVars, mergeVars, writeVars, buildVars, loadVars, ssmVars, emptyVars, gitVars, releaseVars, pageVars>>
    \/ \E c \in Callers : ClientResolves(c)
          /\ UNCHANGED <<uploadVars, mergeVars, writeVars, buildVars, loadVars, ssmVars, emptyVars, gitVars, releaseVars, pageVars>>
    \/ \E c \in Callers : ClientRejects(c)
          /\ UNCHANGED <<uploadVars, mergeVars, writeVars, buildVars, loadVars, ssmVars, emptyVars, gitVars, releaseVars, pageVars>>

\* calls on a Git object
InitGit ==
    GitIdle /\ ReleaseIdle /\ PagesIdle /\ InstanceIdle /\ SsmInit /\ LoadIdle /\ UploadIdle
    /\ MergeIdle /\ WriteIdle /\ BuildIdle /\ EmptyIdle

OutsideGit ==
    UNCHANGED <<uploadVars, mergeVars, writeVars, buildVars, loadVars, ssmVars, emptyVars,
                instanceVars, releaseVars, pageVars>>
NextGit ==
    \/ GitFetch /\ OutsideGit
    \/ GitPull /\ OutsideGit
    \/ GitPush /\ OutsideGit
    \/ GitCheckout /\ OutsideGit
    \/ GitMerge /\ OutsideGit

SpecGit == InitGit /\ [][NextGit]_vars

\* a run of main of the release-merge script
InitRelease ==
    ReleaseInit /\ GitIdle /\ PagesIdle /\ InstanceIdle /\ SsmInit /\ LoadIdle /\ UploadIdle
    /\ MergeIdle /\ WriteIdle /\ BuildIdle /\ EmptyIdle

OutsideRelease ==
    UNCHANGED <<uploadVars, mergeVars, writeVars, buildVars, loadVars, ssmVars, emptyVars,
                instanceVars, gitVars, pageVars>>
NextRelease ==
    \/ MainCalled /\ OutsideRelease
    \/ Answered /\ OutsideRelease

SpecRelease == InitRelease /\ [][NextRelease]_vars

\* a call of getSecretNamesByPath
InitPages ==
    PagesIdle /\ GitIdle /\ ReleaseIdle /\ InstanceIdle /\ SsmInit /\ LoadIdle /\ UploadIdle
    /\ MergeIdle /\ WriteIdle /\ BuildIdle /\ EmptyIdle

OutsidePages ==
    UNCHANGED <<uploadVars, mergeVars, writeVars, buildVars, loadVars, ssmVars, emptyVars,
                instanceVars, gitVars, releaseVars>>
NextPages ==
    \/ GetSecretNamesByPath /\ OutsidePages
    \/ PageResolves /\ OutsidePages
    \/ PageRejects /\ OutsidePages

SpecPages == InitPages /\ [][NextPages]_vars

SpecInstance == InitInstance /\ [][NextInstance]_vars

(***************************************************************************)
(* Properties of the uploader                                              *)
(***************************************************************************)
Settled == status \in {"resolved", "rejected"}
FilePaths == {p \in DOMAIN tree : tree[p].kind = "file"}
Failed(i) == i <= Len(outcomes) /\ outcomes[i] # NoError
Succeeded(i) == i <= Len(outcomes) /\ outcomes[i] = NoError
\* the invocations made for the file with key k
CallsOf(k) == {i \in 1..Len(calls) : calls[i].Key = k}
WaitsOf(k) == SelectSeq(waits, LAMBDA w : w.Key = k)
KeysCalled == {calls[i].Key : i \in 1..Len(calls)}
\* the outcomes so far are k failures followed by one success
FailsThenSucceeds(k) ==
    /\ Len(outcomes) = k + 1
    /\ \A i \in 1..k : Failed(i)
    /\ Succeeded(k + 1)

\* C1: one file, the upload fails k times (k in 0..4) and then succeeds:
\* uploadDeployment resolves. (The code throws the caught error after the
\* retry has succeeded, so this fails for every k >= 1.)
C1_RetryThenSuccessResolves ==
    (/\ Settled
     /\ Cardinality(FilePaths) = 1
     /\ \E k \in 0..(DefaultNumTries - 1) : FailsThenSucceeds(k))
    => status = "resolved"

\* C1, the case the code gets right, reached: success at the first attempt
C1_FirstAttemptReached ==
    /\ status = "resolved" /\ Cardinality(FilePaths) = 1 /\ FailsThenSucceeds(0)

\* C2: a file whose upload fails k times and then succeeds is uploaded with
\* exactly k+1 invocations and k waits of 1000, 2000, 4000, 8000; nothing is
\* invoked and no timer is started for it after the success.
C2_AttemptsAndBackoff ==
    \A key \in KeysCalled :
        LET idx == CallsOf(key)
            nfail == Cardinality({i \in idx : Failed(i)})
            w == WaitsOf(key)
        IN /\ \A i \in idx : \A j \in idx : (Succeeded(i) /\ j > i) => FALSE
           /\ \A j \in 1..Len(w) : w[j].ms = 1000 * 2^(j - 1)
           /\ (\E i \in idx : Succeeded(i)) =>
                 /\ nfail \in 0..4
                 /\ Cardinality(idx) = nfail + 1
                 /\ Len(w) = nfail
                 /\ status = "running" => Last(stack).key # key

C2_FourFailuresThenSuccess ==
    /\ Cardinality(FilePaths) = 1
    /\ FailsThenSucceeds(4)
    /\ Len(calls) = 5
    /\ [j \in 1..Len(waits) |-> waits[j].ms] = <<1000, 2000, 4000, 8000>>

\* C3: when upload fails every time, the first file gets exactly 5
\* invocations and 4 waits, then uploadDeployment rejects; while it runs an
\* invocation or a timer is always pending.
C3_ExhaustionAfterFive ==
    (\A i \in 1..Len(outcomes) : Failed(i)) =>
        /\ Len(calls) <= 5 /\ Len(waits) <= 4
        /\ \A i \in 1..Len(calls) : calls[i].Key = calls[1].Key
        /\ status = "running" => (inFlight = 1 \/ timerPending)
        /\ (Settled /\ outcomes # <<>>) =>
              /\ status = "rejected"
              /\ error.type = "UploadError"
              /\ Len(calls) = 5 /\ Len(outcomes) = 5 /\ Len(waits) = 4
              /\ inFlight = 0 /\ ~timerPending

C3_ExhaustedReached ==
    /\ status = "rejected" /\ Len(outcomes) = 5
    /\ \A i \in 1..5 : Failed(i)
    /\ Cardinality(FilePaths) >= 2

\* C8: with the directory option missing or naming no directory, or the
\* upload option missing or no function, uploadDeployment rejects with an
\* error, having invoked upload zero times and read nothing of the tree.
C8_PreconditionsFailFast ==
    (status # "idle" /\ (optsDirectory # "root" \/ optsUpload # "function")) =>
        /\ status = "rejected"
        /\ error.type = "Error"
        /\ calls = <<>> /\ inFlight = 0
        /\ reads = <<>> /\ listings = <<>>

C8_BadUploadReached ==
    /\ status = "rejected" /\ optsDirectory = "root" /\ optsUpload = "notfunction"
    /\ FilePaths # {}

\* C9: when every invocation succeeds, uploadDeployment resolves having
\* invoked upload exactly once per regular file of the tree and for nothing
\* else, with Key the file's path below the root and Body its content.
C9_EveryFileOnce ==
    (/\ Settled
     /\ optsDirectory = "root" /\ optsUpload = "function"
     /\ \A i \in 1..Len(outcomes) : Succeeded(i))
    => /\ status = "resolved"
       /\ Len(calls) = Cardinality(FilePaths)
       /\ \A p \in FilePaths :
             \E i \in 1..Len(calls) : calls[i] = [Key |-> p, Body |-> tree[p].content]

C9_NestedFilesUploaded ==
    /\ status = "resolved"
    /\ Cardinality(FilePaths) >= 3
    /\ \E p \in FilePaths : Len(p) = 2
    /\ \E p \in FilePaths : Len(p) = 1

(***************************************************************************)
(* Properties of the writer                                                *)
(***************************************************************************)
RegularFiles(d) == {p \in DOMAIN d : d[p].kind = "file"}
FilesWrittenBy(w) == {w.log[i].path : i \in {j \in 1..Len(w.log) : w.log[j].op = "write"}}
HasDot(name) == \E i \in 1..Len(name) : name[i] = "."
\* the files a deployment consists of, when it is written with success
FilesOf(deployment, rootStackFileName) ==
    {SchemaPath, <<rootStackFileName>>}
    \cup {<<<<"resolvers">>, k>> : k \in KeySet(deployment.resolvers)}
    \cup {<<<<"stacks">>, IF HasDot(k) THEN k ELSE k \o <<".", "j", "s", "o", "n">>>> :
             k \in KeySet(deployment.stacks)}
    \cup {<<<<"functions">>, k>> : k \in KeySet(deployment.functions)}

\* C7: after writeDeploymentToDisk has run on a directory, whatever was
\* written or left there before, the regular files under the directory, at
\* every depth, are exactly the files this run wrote: the files of its
\* deployment when it succeeded, and none of an earlier deployment.
C7_OnlyTheLastDeploymentOnDisk ==
    lastWrite.called =>
        /\ RegularFiles(disk) = FilesWrittenBy(lastWrite)
        /\ RegularFiles(disk) \subseteq FilesOf(lastWrite.deployment, lastWrite.rootStackFileName)
        /\ lastWrite.error = NoError =>
              RegularFiles(disk) = FilesOf(lastWrite.deployment, lastWrite.rootStackFileName)

C7_SecondWriteReplacedFirst ==
    /\ writeCalls = 2
    /\ prevWrite.error = NoError /\ lastWrite.error = NoError
    /\ prevWrite.rootStackFileName # lastWrite.rootStackFileName
    /\ \E p \in FilesWrittenBy(prevWrite) : Len(p) = 2 /\ p \notin DOMAIN disk
    /\ \E p \in RegularFiles(lastWrite.before) : Len(p) = 2

(***************************************************************************)
(* Properties of the merge                                                 *)
(***************************************************************************)
Range(f) == {f[i] : i \in DOMAIN f}
\* the first call on a transform output returned
FirstMergeReturned == mergeCalls = 1 /\ mergeStatus = "returned"
\* the ids of the root stack resources, as the transform engine made it,
\* whose Type is one of the three types custom stacks wait for
AnchorSet ==
    {r.k : r \in {x \in Range(transformInput.rootStack.Resources) :
                     x.v.Type \in {"AWS::CloudFormation::Stack", "AWS::AppSync::GraphQLApi",
                                   "AWS::AppSync::GraphQLSchema"}}}
UserStackNamesGiven == KeySet(userConfig.stacks)
\* the stack name with every character that is no letter removed
Letters(name) == SelectSeq(name, LAMBDA c : c \in AsciiLetters)
SynthesizedIds == {Letters(n) : n \in UserStackNamesGiven}
Colliding == UserStackNamesGiven \cap KeySet(transformInput.stacks)

\* C5: after a successful merge the DependsOn of the nested-stack resource
\* synthesized for each user stack is exactly the anchor set, and contains
\* the id of no other synthesized resource. (It does contain one when a user
\* stack's id is the id of an anchor resource, which the merge overwrites.)
C5_DependsOnIsAnchorSet ==
    FirstMergeReturned =>
        \A n \in UserStackNamesGiven :
            LET dependsOn == Range(Get(merged.rootStack.Resources, Letters(n)).DependsOn)
            IN /\ dependsOn = AnchorSet
               /\ \A other \in SynthesizedIds \ {Letters(n)} : other \notin dependsOn

\* C5, the part that holds: DependsOn is the anchor set
C5_DependsOnEqualsAnchors ==
    FirstMergeReturned =>
        \A n \in UserStackNamesGiven :
            /\ Has(merged.rootStack.Resources, Letters(n))
            /\ Range(Get(merged.rootStack.Resources, Letters(n)).DependsOn) = AnchorSet

C5_TwoStacksMerged ==
    /\ FirstMergeReturned
    /\ Cardinality(SynthesizedIds) = 2
    /\ Cardinality(AnchorSet) = 3

\* C6: the merge throws the duplicate-stack-name error, naming a colliding
\* stack, and returns nothing, exactly when a user stack has the name of a
\* stack of the transform output. (A user stack without a Parameters
\* section that comes first makes the merge throw a TypeError instead.)
C6_DuplicateNameRejected ==
    mergeCalls = 1 =>
        /\ Colliding # {} =>
              /\ mergeStatus = "thrown"
              /\ \E n \in Colliding : mergeError = DuplicateStackError(n)
              /\ merged = NoBundle
        /\ Colliding = {} => \A n \in UserStackNamesGiven : mergeError # DuplicateStackError(n)

C6_DuplicateReached ==
    /\ mergeCalls = 1 /\ mergeStatus = "thrown"
    /\ Colliding # {}
    /\ mergeError = DuplicateStackError(DotJson(<<"a">>))
    /\ Len(userConfig.stacks) = 2 /\ userConfig.stacks[2].k = DotJson(<<"a">>)

\* C10: the resolvers of the merged bundle are those of the transform output
\* and of the user; the user's document wherever the user has one, the
\* generated document elsewhere.
C10_UserResolversWin ==
    mergeStatus = "returned" =>
        /\ KeySet(merged.resolvers) = KeySet(transformInput.resolvers) \cup KeySet(userConfig.resolvers)
        /\ \A k \in KeySet(userConfig.resolvers) :
              Get(merged.resolvers, k) = Get(userConfig.resolvers, k)
        /\ \A k \in KeySet(transformInput.resolvers) \ KeySet(userConfig.resolvers) :
              Get(merged.resolvers, k) = Get(transformInput.resolvers, k)

C10_OverrideReached ==
    /\ FirstMergeReturned
    /\ \E k \in KeySet(userConfig.resolvers) \cap KeySet(transformInput.resolvers) :
          Get(userConfig.resolvers, k) # Get(transformInput.resolvers, k)
    /\ KeySet(transformInput.resolvers) \ KeySet(userConfig.resolvers) # {}
    /\ KeySet(userConfig.resolvers) \ KeySet(transformInput.resolvers) # {}

(***************************************************************************)
(* Properties of buildProject                                              *)
(***************************************************************************)
\* C4: when readProjectConfiguration, the transform, the merge or
\* writeDeploymentToDisk fails with an error, buildProject's promise rejects
\* with that error. (The promise of writeDeploymentToDisk is not awaited:
\* buildProject resolves when the write has failed.)
C4_FailurePropagates ==
    (buildStatus # "idle" /\ failure # NoFailure) =>
        /\ buildStatus = "rejected"
        /\ buildError = failure.error

\* C4, the failures that do propagate: those of the loader, the transform
\* and the merge
C4_EarlierFailuresPropagate ==
    (buildStatus # "idle" /\ failure.of \in {"readProjectConfiguration", "transform", "merge"}) =>
        /\ buildStatus = "rejected"
        /\ buildError = failure.error

C4_MergeFailureReached ==
    /\ buildStatus = "rejected" /\ failure.of = "merge"

(***************************************************************************)
(* Properties of the merge: parameters, frame, repetition                  *)
(***************************************************************************)
\* the root stack resources of the merged bundle made for user stack n:
\* those whose TemplateURL ends in n
ResourcesFor(n) ==
    {r \in Range(merged.rootStack.Resources) :
        /\ "TemplateURL" \in DOMAIN r.v.Properties
        /\ Last(r.v.Properties.TemplateURL) = n}
Declared(n) == Get(userConfig.stacks, n).Parameters
RootParameters == transformInput.rootStack.Parameters

\* C11 as stated: the parameter map of the resource made for a user stack
\* has exactly the declared names as keys, and every value is the Ref of the
\* root stack parameter of that name, or the API's ApiId attribute for
\* AppSyncApiId. (A declared name the root stack has no parameter for gets
\* the value undefined.)
C11_ParametersAreReferences ==
    FirstMergeReturned =>
        \A n \in UserStackNamesGiven : \A r \in ResourcesFor(n) :
            LET parameters == r.v.Properties.Parameters
            IN /\ DOMAIN parameters = Declared(n)
               /\ \A name \in DOMAIN parameters :
                     parameters[name] = IF name = AppSyncApiId
                                        THEN GetAtt(GraphQLAPILogicalID, "ApiId")
                                        ELSE Ref(name)

\* C11, amended: the keys are exactly the declared names; the value is the
\* ApiId attribute of the API for AppSyncApiId, the Ref of the root stack
\* parameter for a name the root stack declares, and undefined for any
\* other declared name.
C11_DeclaredParametersLookedUp ==
    FirstMergeReturned =>
        \A n \in UserStackNamesGiven : \A r \in ResourcesFor(n) :
            LET parameters == r.v.Properties.Parameters
            IN /\ DOMAIN parameters = Declared(n)
               /\ \A name \in DOMAIN parameters :
                     parameters[name] =
                         IF name = AppSyncApiId THEN GetAtt(GraphQLAPILogicalID, "ApiId")
                         ELSE IF name \in RootParameters THEN Ref(name)
                         ELSE Undefined

C11_DeclaredAndUndeclaredReached ==
    /\ FirstMergeReturned
    /\ \E n \in UserStackNamesGiven :
          /\ ResourcesFor(n) # {}
          /\ Declared(n) = {"env", AppSyncApiId}
          /\ RootParameters \ Declared(n) # {}
    /\ \E n \in UserStackNamesGiven :
          /\ ResourcesFor(n) # {}
          /\ Declared(n) = {"own"}

\* C12: after a successful merge the entry under each user stack name is the
\* user's template, every stack of the transform output is as it was, and
\* every resource the root stack had is still there, unchanged. (A resource
\* whose id is the letters of a user stack name is replaced by that stack's
\* nested-stack resource.)
C12_MergeOnlyAddsLinks ==
    FirstMergeReturned =>
        /\ \A n \in UserStackNamesGiven : Get(merged.stacks, n) = Get(userConfig.stacks, n)
        /\ \A k \in KeySet(transformInput.stacks) :
              /\ Has(merged.stacks, k)
              /\ Get(merged.stacks, k) = Get(transformInput.stacks, k)
        /\ \A id \in KeySet(transformInput.rootStack.Resources) :
              /\ Has(merged.rootStack.Resources, id)
              /\ Get(merged.rootStack.Resources, id) = Get(transformInput.rootStack.Resources, id)

\* C12, the part that holds: the stacks, and the root stack resources whose
\* id is not the letters of a user stack name
C12_StacksAndOtherResourcesKept ==
    FirstMergeReturned =>
        /\ \A n \in UserStackNamesGiven : Get(merged.stacks, n) = Get(userConfig.stacks, n)
        /\ \A k \in KeySet(transformInput.stacks) :
              /\ Has(merged.stacks, k)
              /\ Get(merged.stacks, k) = Get(transformInput.stacks, k)
        /\ \A id \in KeySet(transformInput.rootStack.Resources) \ SynthesizedIds :
              /\ Has(merged.rootStack.Resources, id)
              /\ Get(merged.rootStack.Resources, id) = Get(transformInput.rootStack.Resources, id)

C12_MergedBesideGenerated ==
    /\ FirstMergeReturned
    /\ UserStackNamesGiven # {}
    /\ transformInput.stacks # <<>>
    /\ transformInput.rootStack.Resources # <<>>

\* C13: a second merge of the same user bundle and the same transform bundle
\* returns whenever the first did, and returns the same bundle. (The first
\* merge has put the user stacks into the transform bundle's stacks, so the
\* second finds their names taken.)
C13_SecondMergeRepeats ==
    [][(mergeCalls = 1 /\ mergeStatus = "returned")
          => (mergeStatus' = "returned" /\ merged' = merged)]_vars

\* C13, the part that holds: without user stacks the second merge returns
\* what the first returned
C13_RepeatsWithoutStacks ==
    [][(mergeCalls = 1 /\ mergeStatus = "returned" /\ userConfig.stacks = <<>>)
          => (mergeStatus' = "returned" /\ merged' = merged)]_vars

C13_SecondMergeReached ==
    /\ mergeCalls = 2
    /\ userConfig.stacks # <<>>
    /\ KeySet(userConfig.stacks) \subseteq KeySet(transformOutput.stacks)

(***************************************************************************)
(* Properties of the uploader: the error thrown on, one call at a time     *)
(***************************************************************************)
\* uploadDeployment has rejected after five failed invocations for one file
Exhausted ==
    /\ status = "rejected"
    /\ Len(outcomes) >= DefaultNumTries
    /\ Len(calls) = Len(outcomes)
    /\ \A i \in (Len(outcomes) - DefaultNumTries + 1)..Len(outcomes) :
          Failed(i) /\ calls[i].Key = calls[Len(calls)].Key

\* C16 as stated: when the tries of a file are used up, uploadDeployment
\* rejects with the error of the first failed invocation for that file.
\* (Each uploadFile awaits its retry inside its catch block, so the error of
\* the last invocation is the one that leaves every frame.)
C16_FirstErrorReachesCaller ==
    Exhausted => error = outcomes[Len(outcomes) - DefaultNumTries + 1]

\* C16, amended: when the tries of a file are used up, uploadDeployment
\* rejects with the error the upload function raised at the last (fifth)
\* invocation for that file, itself and not wrapped.
C16_LastErrorReachesCaller ==
    Exhausted => /\ error = outcomes[Len(outcomes)]
                 /\ error = UploadError(Len(calls))

C16_SecondFileExhausted ==
    /\ Exhausted
    /\ Len(outcomes) = DefaultNumTries + 1
    /\ Succeeded(1)

\* C17: at most one invocation of the upload function is in flight; an
\* invocation starts only when every earlier one has settled, and a retry
\* only when the timer of its backoff wait has fired.
C17_OneInvocationAtATime ==
    /\ inFlight \in {0, 1}
    /\ Len(calls) = Len(outcomes) + inFlight
    /\ timerPending => inFlight = 0
    /\ \A key \in KeysCalled :
          Cardinality(CallsOf(key)) =
              1 + Len(WaitsOf(key))
                - (IF timerPending /\ Last(waits).Key = key THEN 1 ELSE 0)

C17_RetryOfSecondFileInFlight ==
    /\ inFlight = 1
    /\ Len(calls) = 3
    /\ Cardinality(KeysCalled) = 2
    /\ Len(waits) = 1

(***************************************************************************)
(* Properties of the loader                                                *)
(***************************************************************************)
\* the characters after the last dot of a name, the whole name without one
LastExtension(name) ==
    LET dots == {i \in 1..Len(name) : name[i] = "."}
    IN IF dots = {} THEN name
       ELSE SubSeq(name, (CHOOSE i \in dots : \A j \in dots : j <= i) + 1, Len(name))
JsonExtension == <<"j", "s", "o", "n">>
YamlExtensions == {<<"y", "a", "m", "l">>, <<"y", "m", "l">>}
SchemaFound == project.schemaFile.exists \/ project.schemaDirectory.exists
\* the i-th file of the stacks directory is the first the loader cannot
\* take, and that because of its extension
FirstBadExtensionAt(i) ==
    LET files == project.stacks.files
    IN /\ project.stacks.exists
       /\ i \in 1..Len(files)
       /\ LastExtension(files[i].k) # JsonExtension
       /\ \A j \in 1..(i - 1) :
             LastExtension(files[j].k) = JsonExtension /\ files[j].v.text \in JsonTexts

\* C14: readProjectConfiguration on a project with a schema, when it comes
\* to a stack file whose last extension is yaml or yml, throws the
\* yaml-unsupported error, and for any other last extension but json (a name
\* without a dot included) the invalid-extension error; the error names the
\* file, the file has not been read, and nothing is returned.
C14_BadExtensionRejected ==
    (loadOp = "readProjectConfiguration" /\ SchemaFound) =>
        \A i \in 1..Len(project.stacks.files) :
            FirstBadExtensionAt(i) =>
                LET name == project.stacks.files[i].k
                IN /\ loadError.type = "Error"
                   /\ loadError.detail[1] =
                         (IF LastExtension(name) \in YamlExtensions
                          THEN "Yaml is not yet supported" ELSE "Invalid extension")
                   /\ Last(loadError.detail) = name
                   /\ <<<<"stacks">>, name>> \notin Range(loadReads)
                   /\ loadValue = NothingLoaded

C14_YmlAfterJsonReached ==
    /\ loadOp = "readProjectConfiguration"
    /\ FirstBadExtensionAt(2)
    /\ loadError = YamlError(YmlName)
    /\ <<<<"stacks">>, DotJson(<<"b">>)>> \in Range(loadReads)
    /\ project.resolvers.exists

\* the places of the documents in the schema directory (its listing goes
\* two levels deep): <<i>> is the i-th entry, <<i, j>> the j-th entry of the
\* directory that is the i-th entry
DocumentPlaces ==
    LET entries == project.schemaDirectory.entries
    IN {<<i>> : i \in {k \in 1..Len(entries) : entries[k].kind = "file"}}
       \cup UNION {{<<i, j>> : j \in {k \in 1..Len(entries[i].entries) :
                                          entries[i].entries[k].kind = "file"}} :
                      i \in {k \in 1..Len(entries) : entries[k].kind = "dir"}}
DocumentAt(place) ==
    IF Len(place) = 1 THEN project.schemaDirectory.entries[place[1]].content
    ELSE project.schemaDirectory.entries[place[1]].entries[place[2]].content
\* place p is visited before place q
VisitedBefore(p, q) == p[1] < q[1] \/ (p[1] = q[1] /\ Len(p) = 2 /\ Len(q) = 2 /\ p[2] < q[2])
PlaceVisited(k) ==
    CHOOSE p \in DocumentPlaces :
        Cardinality({q \in DocumentPlaces : VisitedBefore(q, p)}) = k - 1

\* C15: readSchema returns the content of schema.graphql when that file
\* exists; else, when the schema directory exists, its documents in
\* depth-first listing order with one newline between two of them; else it
\* throws an error and returns nothing.
C15_SchemaResolution ==
    loadOp = "readSchema" =>
        IF project.schemaFile.exists
        THEN loadError = NoError /\ loadValue.schema = <<project.schemaFile.content>>
        ELSE IF project.schemaDirectory.exists
        THEN LET n == Cardinality(DocumentPlaces)
                 schema == loadValue.schema
             IN /\ loadError = NoError
                /\ Len(schema) = IF n = 0 THEN 0 ELSE 2 * n - 1
                /\ \A k \in 1..n : schema[2 * k - 1] = DocumentAt(PlaceVisited(k))
                /\ \A k \in 1..(n - 1) : schema[2 * k] = "\n"
        ELSE loadError.type = "Error" /\ loadValue = NothingLoaded

C15_NestedDocumentsReached ==
    /\ loadOp = "readSchema"
    /\ ~project.schemaFile.exists
    /\ loadValue.schema = <<"type B", "\n", "type C", "\n", "type D">>

(***************************************************************************)
(* Properties of buildProject: nothing is written after a failure          *)
(***************************************************************************)
\* C18: when readProjectConfiguration, the transform or the merge fails,
\* buildProject leaves the build directory as it was: nothing is unlinked,
\* nothing is written, writeDeploymentToDisk is not called.
C18_NoWriteAfterEarlyFailure ==
    [][(\/ failure'.of \in {"readProjectConfiguration", "transform", "merge"}
        \/ (mergeCalls' = mergeCalls + 1 /\ mergeStatus' = "thrown"))
          => (disk' = disk /\ lastWrite' = lastWrite /\ writeCalls' = writeCalls)]_vars

C18_FailedOverPreviousBuild ==
    /\ buildStatus = "rejected"
    /\ mergeStatus = "thrown"
    /\ failure.of = "merge"
    /\ RegularFiles(disk) # {}
    /\ ~lastWrite.called

(***************************************************************************)
(* Properties of writing and reading back                                  *)
(***************************************************************************)
\* the stacks of the bundle written last that are raw text under a name
\* whose last extension is json
RawJsonStacks ==
    {e \in Range(lastWrite.deployment.stacks) :
        e.v.kind = "string" /\ LastExtension(e.k) = JsonExtension}
ReadBackAfterWrite == loadOp = "readStacks" /\ lastWrite.error = NoError
RoundTrips(e) ==
    /\ loadError = NoError
    /\ Has(loadValue.stacks, e.k)
    /\ Get(loadValue.stacks, e.k) = JsonParse(e.v.text)
    /\ disk[Append(StacksDir, e.k)].content = Text(e.v.text)

\* C19: a stack kept as raw JSON text under a name ending in .json is, after
\* writeDeploymentToDisk, a file holding that very text, and the loader's
\* stack-loading step on the written directory yields the template the text
\* denotes under that name. (A stack p, written as p.json, replaces the
\* file of a stack p.json written before it.)
C19_RawTextRoundTrip ==
    ReadBackAfterWrite => \A e \in RawJsonStacks : RoundTrips(e)

\* C19, the part that holds: the stacks whose file no other stack of the
\* bundle is written to
C19_RoundTripWithoutTwin ==
    ReadBackAfterWrite =>
        \A e \in RawJsonStacks :
            (\A other \in Range(lastWrite.deployment.stacks) :
                other.k # e.k => other.k \o <<".", "j", "s", "o", "n">> # e.k)
            => RoundTrips(e)

C19_ReadBackReached ==
    /\ ReadBackAfterWrite
    /\ \E e \in RawJsonStacks : RoundTrips(e)
    /\ Len(lastWrite.deployment.stacks) = 2

(***************************************************************************)
(* Properties of the SSM client wrapper                                    *)
(***************************************************************************)
SsmSettled == ssmPhase \in {"resolved", "rejected"}

\* C20: deleteSecret and deleteSecrets resolve when the client's delete call
\* resolved or rejected with code ParameterNotFound; for an error with any
\* other code, or none, they reject with that very error.
C20_OnlyParameterNotFoundSwallowed ==
    SsmSettled =>
        /\ ssmOp.fn \in {"deleteSecret", "deleteSecrets"}
        /\ IF ssmUnderlying = NoSdkError \/ ssmUnderlying.code = "ParameterNotFound"
           THEN ssmPhase = "resolved" /\ ssmError = NoSdkError
           ELSE ssmPhase = "rejected" /\ ssmError = ssmUnderlying

C20_NotFoundSwallowedReached ==
    /\ ssmPhase = "resolved"
    /\ ssmOp.fn = "deleteSecrets"
    /\ ssmUnderlying = SdkError("ParameterNotFound", 2)

(***************************************************************************)
(* Properties of emptyDirectory                                            *)
(***************************************************************************)
DirectoriesOf(d) == {p \in DOMAIN d : d[p].kind = "dir"}
IsUnder(p, dir) == Len(p) > Len(dir) /\ SubSeq(p, 1, Len(dir)) = dir
EmptyReturned == lastEmpty.called /\ lastEmpty.error = NoError

\* C21: when emptyDirectory(d) has returned, no regular file is left under d
\* at any depth, and the directories (d, those under it, and all others)
\* are the ones there were before; files that are not under d are kept.
C21_FilesGoneDirectoriesKept ==
    EmptyReturned =>
        /\ \A p \in RegularFiles(disk) : ~IsUnder(p, lastEmpty.directory)
        /\ DirectoriesOf(disk) = DirectoriesOf(lastEmpty.before)
        /\ \A p \in RegularFiles(lastEmpty.before) :
              ~IsUnder(p, lastEmpty.directory) => (p \in DOMAIN disk /\ disk[p] = lastEmpty.before[p])

C21_NestedFilesRemoved ==
    /\ EmptyReturned
    /\ lastEmpty.directory = <<<<"d">>>>
    /\ <<<<"d">>, <<"dd">>, <<"z.txt">>>> \in DOMAIN lastEmpty.before
    /\ <<<<"d">>, <<"y.txt">>>> \in DOMAIN lastEmpty.before
    /\ RegularFiles(disk) # {}

(***************************************************************************)
(* Properties of the writer: order of the steps, failure                   *)
(***************************************************************************)
\* the files of a deployment in the order of the steps, each with whether
\* its step can write it: a stack whose file name has a last extension
\* other than json cannot be, nor a function whose artifact is missing
ItemsOf(deployment, rootStackFileName) ==
    <<[path |-> SchemaPath, ok |-> TRUE]>>
    \o [i \in 1..Len(deployment.resolvers) |->
           [path |-> <<<<"resolvers">>, deployment.resolvers[i].k>>, ok |-> TRUE]]
    \o [i \in 1..Len(deployment.stacks) |->
           LET k == deployment.stacks[i].k
               full == IF HasDot(k) THEN k ELSE k \o <<".", "j", "s", "o", "n">>
           IN [path |-> <<<<"stacks">>, full>>, ok |-> LastExtension(full) = JsonExtension]]
    \o [i \in 1..Len(deployment.functions) |->
           [path |-> <<<<"functions">>, deployment.functions[i].k>>,
            ok |-> deployment.functions[i].v.exists]]
    \o <<[path |-> <<rootStackFileName>>, ok |-> TRUE]>>
LastItems == ItemsOf(lastWrite.deployment, lastWrite.rootStackFileName)
\* the place of the first item that cannot be written, one past the end
\* when there is none
FirstRefused ==
    LET bad == {i \in 1..Len(LastItems) : ~LastItems[i].ok}
    IN IF bad = {} THEN Len(LastItems) + 1 ELSE CHOOSE i \in bad : \A j \in bad : i <= j
WritesOf(w) ==
    LET writes == SelectSeq(w.log, LAMBDA c : c.op = "write")
    IN [i \in 1..Len(writes) |-> writes[i].path]
TargetExisted == <<>> \in DOMAIN lastWrite.before

\* C22: writeDeploymentToDisk empties the directory, then writes the schema,
\* the resolvers, the stacks, the functions and the root stack, in that
\* order; when a step fails, the files written before stay, nothing after
\* is written, the root stack file is absent, and no file of the previous
\* build is left.
C22_StepsInOrderNoRollback ==
    lastWrite.called =>
        IF ~TargetExisted
        THEN lastWrite.error # NoError /\ WritesOf(lastWrite) = <<>> /\ disk = lastWrite.before
        ELSE /\ \A i, j \in 1..Len(lastWrite.log) :
                   (lastWrite.log[i].op \in {"write", "mkdir"}
                    /\ lastWrite.log[j].op \in {"readdir", "unlink"}) => j < i
             /\ WritesOf(lastWrite) =
                   [i \in 1..(FirstRefused - 1) |-> LastItems[i].path]
             /\ (lastWrite.error = NoError) <=> (FirstRefused = Len(LastItems) + 1)
             /\ \A p \in Range(WritesOf(lastWrite)) : p \in RegularFiles(disk)
             /\ \A p \in RegularFiles(lastWrite.before) :
                   p \in DOMAIN disk => p \in Range(WritesOf(lastWrite))
             /\ lastWrite.error # NoError =>
                   <<lastWrite.rootStackFileName>> \notin DOMAIN disk

C22_FailedAtSecondStackOverOldBuild ==
    /\ lastWrite.called /\ prevWrite.called
    /\ prevWrite.error = NoError
    /\ lastWrite.error = YamlError(YmlName)
    /\ Len(WritesOf(lastWrite)) = 4
    /\ lastWrite.rootStackFileName = prevWrite.rootStackFileName

\* the file name a stack name stands for
FileNameFor(k) == IF HasDot(k) THEN k ELSE k \o <<".", "j", "s", "o", "n">>
\* the place of the first stack of the bundle written last whose file name
\* has a last extension other than json, one past the end when there is none
FirstRefusedStack ==
    LET stacks == lastWrite.deployment.stacks
        bad == {i \in 1..Len(stacks) : LastExtension(FileNameFor(stacks[i].k)) # JsonExtension}
    IN IF bad = {} THEN Len(stacks) + 1 ELSE CHOOSE i \in bad : \A j \in bad : i <= j
\* what the loader throws on a stacks directory holding just a file of that name
LoaderErrorFor(name) == LoadStacks([exists |-> TRUE, files |-> <<Entry(name, Text("{ }"))>>], <<>>).error

\* C27: a stack whose name has no dot is written to <name>.json, one whose
\* last extension is json to its own name; a stack with any other last
\* extension makes the write fail with the error the loader has for that
\* name, and no file of that name is created.
C27_StackFileNames ==
    (lastWrite.called /\ TargetExisted) =>
        LET stacks == lastWrite.deployment.stacks
        IN /\ \A i \in 1..(FirstRefusedStack - 1) :
                 /\ <<<<"stacks">>, FileNameFor(stacks[i].k)>> \in Range(WritesOf(lastWrite))
                 /\ ~HasDot(stacks[i].k) => <<<<"stacks">>, stacks[i].k>> \notin DOMAIN disk
           /\ FirstRefusedStack <= Len(stacks) =>
                 LET name == stacks[FirstRefusedStack].k
                 IN /\ lastWrite.error = LoaderErrorFor(name)
                    /\ lastWrite.error.detail[1] =
                          (IF LastExtension(name) \in YamlExtensions
                           THEN "Yaml is not yet supported" ELSE "Invalid extension")
                    /\ Last(lastWrite.error.detail) = name
                    /\ <<<<"stacks">>, name>> \notin DOMAIN disk
                    /\ Cardinality(Children(disk, StacksDir)) <= FirstRefusedStack - 1

C27_TxtAfterDotlessReached ==
    /\ lastWrite.called
    /\ lastWrite.error = ExtensionError(<<"t", "x", "t">>, TxtName)
    /\ <<<<"stacks">>, <<"q", ".", "j", "s", "o", "n">>>> \in DOMAIN disk

\* the tries of the file with key k are used up: DefaultNumTries invocations
\* for it have failed
TriesUsedUp(k) == Cardinality({i \in CallsOf(k) : Failed(i)}) >= DefaultNumTries
\* the files for which the upload function was never invoked
NeverCalled == FilePaths \ KeysCalled

\* C23: once the tries of one file are used up, uploadDeployment has
\* rejected, nothing is in flight or waiting, and every invocation for
\* another file came before the first invocation for this file and
\* succeeded: no later sibling, no file of a later subdirectory and no file
\* of a later entry of an enclosing directory is ever uploaded.
C23_NothingUploadedAfterExhaustion ==
    \A k \in KeysCalled :
        TriesUsedUp(k) =>
            /\ status = "rejected"
            /\ stack = <<>> /\ inFlight = 0 /\ ~timerPending
            /\ \A i \in 1..Len(calls) :
                  calls[i].Key # k =>
                      /\ \A j \in CallsOf(k) : i < j
                      /\ Succeeded(i)

\* the first file of the first subdirectory ran out of tries with its
\* sibling, and a file of the subdirectory listed after it, still to come
C23_LaterEntriesLeftAlone ==
    /\ TriesUsedUp(<<"a", "a">>)
    /\ <<"a", "b">> \in NeverCalled
    /\ <<"b", "a">> \in NeverCalled

\* the place of a name in a directory listing
ListingPlace(n) == CHOOSE i \in 1..Len(ListingOrder) : ListingOrder[i] = n
\* the entry of path p at depth d, an ancestor of p or p itself
EntryAt(p, d) == SubSeq(p, 1, d)
\* file p lies at or under an entry listed, in one directory, before an entry
\* at or under which file q lies
ListedBefore(p, q) ==
    \E d \in 1..Len(p) :
        /\ d <= Len(q)
        /\ EntryAt(p, d - 1) = EntryAt(q, d - 1)
        /\ ListingPlace(p[d]) < ListingPlace(q[d])
\* file p lies under a subdirectory listed before an entry at or under which
\* file q lies
UnderEarlierSubdirectory(p, q) ==
    \E d \in 1..(Len(p) - 1) :
        /\ d <= Len(q)
        /\ EntryAt(p, d - 1) = EntryAt(q, d - 1)
        /\ ListingPlace(p[d]) < ListingPlace(q[d])

\* C24: the walk is depth-first in listing order: when the upload function
\* is invoked for a file, every file at or under an entry listed earlier (in
\* particular every file under an earlier subdirectory) has already been
\* uploaded successfully, a failure there having ended the walk; and no
\* invocation for a file follows a successful invocation for that file.
C24_DepthFirstInListingOrder ==
    /\ \A i \in 1..Len(calls) :
          \A p \in FilePaths :
              ListedBefore(p, calls[i].Key) =>
                  \E j \in 1..(i - 1) : calls[j].Key = p /\ Succeeded(j)
    /\ \A i \in 1..Len(calls) :
          Succeeded(i) => \A j \in (i + 1)..Len(calls) : calls[j].Key # calls[i].Key

\* the upload of an entry listed after a subdirectory with two files has
\* started
C24_EntryAfterSubdirectoryStarted ==
    /\ Len(calls) = 3
    /\ calls[3].Key[1] = "b"
    /\ UnderEarlierSubdirectory(<<"a", "a">>, calls[3].Key)
    /\ UnderEarlierSubdirectory(<<"a", "b">>, calls[3].Key)
    /\ {<<"a", "a">>, <<"a", "b">>} \subseteq FilePaths

\* uploadDeployment rejected with the error of the failing file system call
FsFailed == status = "rejected" /\ error.type = fsFault.code
\* how many times path p occurs in a log of file system calls
TimesIn(log, p) == Cardinality({i \in 1..Len(log) : log[i] = p})
\* path p is the entry `at` or lies under it
AtOrUnder(p, at) == Len(p) >= Len(at) /\ SubSeq(p, 1, Len(at)) = at

\* C28: a failing readdir, lstat or readFile of the walk is not retried: when
\* every upload before it has succeeded, uploadDeployment rejects with that
\* very error (its code and path), the failing call having been made once,
\* with no backoff wait, and the upload function not invoked for the entry
\* or anything under it; and every backoff wait follows a failed invocation
\* of the upload function.
C28_FilesystemErrorNotRetried ==
    /\ (Settled /\ \A i \in 1..Len(outcomes) : Succeeded(i)) => FsFailed
    /\ FsFailed =>
          /\ error.detail = <<fsFault.path>>
          /\ waits = <<>> /\ ~timerPending /\ inFlight = 0 /\ stack = <<>>
          /\ \A k \in KeysCalled : ~AtOrUnder(k, fsFault.path)
          /\ fsFault.op = "readdir" => TimesIn(listings, fsFault.path) = 1
          /\ fsFault.op = "readFile" => TimesIn(reads, fsFault.path) = 1
          /\ fsFault.op = "lstat" => /\ TimesIn(listings, fsFault.path) = 0
                                     /\ TimesIn(reads, fsFault.path) = 0
    /\ Len(waits) <= Cardinality({i \in 1..Len(outcomes) : Failed(i)})

\* reading the second file of a subdirectory failed after the first file
\* had been uploaded
C28_ReadOfNestedFileFailed ==
    /\ FsFailed
    /\ fsFault = Fault("readFile", <<"a", "b">>, "EISDIR")
    /\ Len(calls) = 1 /\ calls[1].Key = <<"a", "a">> /\ Succeeded(1)

\* the ids the resources of a root stack list in their DependsOn
DependsOnIds(rootStack) ==
    UNION {Range(r.v.DependsOn) : r \in Range(rootStack.Resources)}

\* C25: after a merge that returned, every id in the DependsOn of a resource
\* of the root stack is the id of a resource of that root stack, also when
\* the id made for a user stack is the id of a generated resource or of
\* another user stack.
C25_DependsOnResolves ==
    mergeStatus = "returned" =>
        /\ DependsOnIds(merged.rootStack) \subseteq KeySet(merged.rootStack.Resources)
        /\ DependsOnIds(transformOutput.rootStack)
               \subseteq KeySet(transformOutput.rootStack.Resources)

\* two user stacks with the same letters were merged into a root stack that
\* had a generated resource of that id
C25_CollidingIdsMerged ==
    /\ FirstMergeReturned
    /\ UserStackNamesGiven = {DotJson(<<"a">>), DotJson(<<"a", "1">>)}
    /\ Has(transformInput.rootStack.Resources, Letters(DotJson(<<"a">>)))
    /\ DependsOnIds(merged.rootStack) # {}

\* C26: after a merge that returned, user stacks of different names have
\* different resource ids, and the root stack has a linking resource for
\* every one of them. (a.json and a1.json both give the id ajson: the
\* resource of the later stack replaces that of the earlier one.)
C26_OneLinkPerUserStack ==
    FirstMergeReturned =>
        /\ \A n \in UserStackNamesGiven : \A m \in UserStackNamesGiven :
              n # m => Letters(n) # Letters(m)
        /\ \A n \in UserStackNamesGiven : ResourcesFor(n) # {}
        /\ Cardinality(UNION {ResourcesFor(n) : n \in UserStackNamesGiven})
               = Cardinality(UserStackNamesGiven)

\* the merge threw the duplicate-stack-name error
DuplicateThrown ==
    /\ mergeCalls = 1 /\ mergeStatus = "thrown"
    /\ \E n \in UserStackNamesGiven : mergeError = DuplicateStackError(n)

\* C29: a merge that throws the duplicate-stack-name error leaves the
\* transform output as it was before the call. (The resolvers are overridden
\* before the loop over the user stacks starts, and the stacks before the
\* colliding one are added with their linking resources.)
C29_FailedMergeChangesNothing ==
    DuplicateThrown =>
        /\ transformOutput.resolvers = transformInput.resolvers
        /\ Keys(transformOutput.stacks) = Keys(transformInput.stacks)
        /\ Keys(transformOutput.rootStack.Resources) = Keys(transformInput.rootStack.Resources)
        /\ transformOutput = transformInput

(***************************************************************************)
(* Properties of SSMClientWrapper.getInstance                              *)
(***************************************************************************)
\* the calls of getInstance that have returned a wrapper
Returned == {c \in Callers : callers[c].pc = "returned"}

\* C30: however the calls of getInstance interleave, the SSM client is
\* acquired at most once, one wrapper at most is constructed, and all calls
\* that return get the same wrapper. (The test of the static field and its
\* assignment are separated by the await of getSSMClient: a call started
\* while another awaits finds the field unset and acquires a client too.)
C30_OneInstanceForAll ==
    /\ acquisitions <= 1
    /\ constructed <= 1
    /\ \A c \in Returned : \A d \in Returned : callers[c].got = callers[d].got

(***************************************************************************)
(* Properties of the release-merge script                                  *)
(***************************************************************************)
\* the git subcommands main has handed to execSync
Subcommands == {relLog[i].command[3] : i \in 1..Len(relLog)}
\* the commands main has executed for a subcommand
CommandsOf(sub) ==
    {relLog[i].command : i \in {j \in 1..Len(relLog) : relLog[j].command[3] = sub}}
ChangingSubcommands == {"checkout", "pull", "merge", "push"}

\* C31: git push is executed only in runs whose working tree was clean at
\* the start and is clean after the merge, and only after a merge that
\* succeeded; and in a run without --continue whose merge branch exists,
\* main has exited without any checkout, pull, merge or push, with status 1
\* once isExistingBranch has found the branch.
C31_PushOnlyWhenCleanNoWorkOnExistingBranch ==
    /\ "push" \in Subcommands =>
          /\ relRun.cleanAtStart /\ relRun.cleanAfterMerge
          /\ \E i \in 1..Len(relLog) : relLog[i].command[3] = "merge" /\ relLog[i].ok
          /\ relLog[Len(relLog)].command[3] = "push"
    /\ (relPc # "start" /\ relRun.mergeBranchExists /\ ~relRun.continueArg) =>
          /\ relPc = "exited"
          /\ Subcommands \cap ChangingSubcommands = {}
          /\ relChecked = "exists" => relExit = 1
    /\ (relChecked = "exists" /\ ~relRun.continueArg) =>
          /\ relPc = "exited" /\ relExit = 1
          /\ Subcommands \cap ChangingSubcommands = {}

\* the user said y at the prompt and the new merge branch was pushed
C31_MergeBranchPushed ==
    /\ relPc = "exited" /\ relExit = 0
    /\ ~relRun.continueArg /\ relChecked = "absent"
    /\ CommandsOf("push") = {<<"git", Space, "push", Space, "upstream", Space,
                              "dev-main-merge-", "abc1234">>}
    /\ <<"git", Space, "checkout", Space, "-b", Space, "dev-main-merge-", "abc1234">>
           \in CommandsOf("checkout")

\* C32: fetch(remote, branch) executes the command assembled from the
\* arguments supplied: git fetch <remote> <branch> with a branch, git fetch
\* <remote> without one. (The method assembles that command and then hands
\* execSync the template string `git fetch ${remote} ${branch}`: without a
\* branch the command executed ends in the word undefined.)
C32_FetchExecutesAssembledCommand ==
    \A i \in 1..Len(gitLog) :
        gitLog[i].method = "fetch" =>
            LET remote == gitLog[i].args[1]
                branch == gitLog[i].args[2]
            IN /\ gitLog[i].executed = JoinSpace(FetchCommand(remote, branch))
               /\ Truthy(branch) =>
                     gitLog[i].executed = <<"git", Space, "fetch", Space>> \o remote
                                              \o <<Space>> \o branch
               /\ branch = Omitted =>
                     gitLog[i].executed = <<"git", Space, "fetch", Space>> \o remote

(***************************************************************************)
(* Properties of getSecretNamesByPath                                      *)
(***************************************************************************)
\* the names of the pages received, in page order
RECURSIVE NamesOfPages(_)
NamesOfPages(pages) ==
    IF pages = <<>> THEN <<>> ELSE Head(pages).Parameters \o NamesOfPages(Tail(pages))
\* the page is the last one: its response carries no NextToken
LastPage(page) == page.NextToken = NoToken

\* C33: the first request carries no token and every later request the
\* token of the response before it; a request follows a response exactly
\* when that response carries a token; the call returns on the first
\* response without one, with the names of all pages in page order; and
\* when a request fails the call rejects with that error and returns
\* nothing.
C33_PagesFollowedToTheEnd ==
    /\ pageRequests # <<>> => pageRequests[1] = NoToken
    /\ \A i \in 1..Len(pageResponses) :
          /\ i < Len(pageRequests) => /\ ~LastPage(pageResponses[i])
                                      /\ pageRequests[i + 1] = pageResponses[i].NextToken
          /\ LastPage(pageResponses[i]) => i = Len(pageResponses) /\ pagePc = "returned"
    /\ Len(pageRequests) = Len(pageResponses) + (IF pagePc \in {"awaiting", "rejected"} THEN 1 ELSE 0)
    /\ pagePc = "returned" =>
          /\ pageResponses # <<>>
          /\ LastPage(pageResponses[Len(pageResponses)])
          /\ pageResult = NamesOfPages(pageResponses)
          /\ pageError = NoSdkError
    /\ pagePc = "rejected" => pageResult = NoResult /\ pageError # NoSdkError
    /\ pagePc \in {"idle", "awaiting"} => pageResult = NoResult /\ pageError = NoSdkError

\* three pages were received, the first and the last with names
C33_ThreePagesReturned ==
    /\ pagePc = "returned"
    /\ Len(pageResponses) = 3
    /\ pageRequests = <<NoToken, "t1", "t2">>
    /\ pageResponses[1].Parameters = <<"/amplify/a">>
    /\ pageResponses[2].Parameters = <<>>
    /\ pageResult = <<"/amplify/a", "/amplify/b", "/amplify/c">>

====
